---- MODULE Spec2Model ----
(***************************************************************************)
(* Model of the Ergo build pipeline (andmoreduro/Ergo).                    *)
(*                                                                         *)
(* Part 1: the build-process supervisor, app/backend/process_manager.py.   *)
(* ProcessManager owns one QProcess (self.process) for "typst watch" and   *)
(* creates one further QProcess per PDF export.  Every slot and every      *)
(* signal handler of the class is one action; the Qt event loop and the    *)
(* operating system (subprocess start-up, subprocess exit, the state of    *)
(* the file system) are the environment and choose their outcomes          *)
(* nondeterministically.                                                   *)
(***************************************************************************)
EXTENDS Integers, Sequences, FiniteSets, TLC

(***************************************************************************)
(* Bounds of the model.                                                    *)
(***************************************************************************)
\* Number of export jobs (QProcess instances created by export_pdf) in a run.
MaxJobs == 2

\* Number of times one page file is written (created or modified) in a run.
MaxMtime == 2

\* Number of distinct readings of the millisecond clock in a run.
MaxTime == 2

\* Number of sections the document of a run may grow to.
MaxSections == 2

\* Project directories the UI may select; None is the value set by __init__.
None == "None"
ProjectPaths == {"projA", "projB"}

\* Hosts the application may run on: sys.platform and platform.machine().
Hosts == {<<"linux", "AMD64">>, <<"darwin", "arm64">>}

\* Text a compile subprocess may leave on its error stream.
StderrTexts == {"", "error: unknown variable"}

\* Exit codes and QProcess.ExitStatus values a subprocess may end with.
ExitCodes == {0, 1}
ExitStatuses == {"NormalExit", "CrashExit"}

\* What QUrl(destination_folder_url).toLocalFile() / is_dir() may yield.
DestinationKinds == {"folder", "not_a_folder", "raises"}

JobIds == 1..MaxJobs

VARIABLES
    projectPath,  \* self.project_path
    procState,    \* self.process.state(): NotRunning, Starting or Running
    workDir,      \* self.process.workingDirectory()
    alive,        \* number of live watch subprocesses of self.process
    osName,       \* sys.platform
    machine,      \* platform.machine()
    exeIsFile,    \* executable_path.is_file() for the computed path
    sourcePdf,    \* whether <project>/output/main.pdf exists
    jobs,         \* the export QProcess instances, by creation order
    lastCall      \* the handler that ran last: what it did and emitted

supVars == <<projectPath, procState, workDir, alive, osName, machine,
             exeIsFile, sourcePdf, jobs, lastCall>>

VARIABLES
    outputPathSet,   \* whether self.output_path is set (not None)
    watchedDir,      \* whether watcher.directories() holds the output path
    watchedFiles,    \* watcher.files()
    pollActive,      \* poll_timer.isActive()
    fileTimestamps,  \* self.file_timestamps
    issued,          \* the cache busters stored in file_timestamps so far
    lastScan,        \* the signals of the last _scan_and_emit, in order
    dirFiles,        \* the page files of the output directory
    now              \* int(time.time() * 1000)

monVars == <<outputPathSet, watchedDir, watchedFiles, pollActive,
             fileTimestamps, issued, lastScan, dirFiles, now>>

VARIABLES
    sortCall         \* one call of _get_sorted_svg_files: listing and result

VARIABLES
    genProjectSet,   \* whether self.project_path of the generator is set
    formData,        \* the form: the arguments other than sections
    document,        \* the sections of the document
    sectionsDir,     \* whether <project>/sections exists
    sectionFiles,    \* the files <project>/sections/<id>.typ
    rootFile,        \* <project>/main.typ
    snapshot,        \* <project>/form_data.json
    genCall,         \* what the generator was asked last
    uuidsDrawn       \* number of uuid4 values drawn so far

genVars == <<genProjectSet, formData, document, sectionsDir, sectionFiles,
             rootFile, snapshot, genCall, uuidsDrawn>>

\* The state outside the supervisor, the tracker, the sorting routine and
\* the generator.
notSupVars == <<monVars, sortCall, genVars>>
notMonVars == <<supVars, sortCall, genVars>>
notSortVars == <<supVars, monVars, genVars>>
notGenVars == <<supVars, monVars, sortCall>>

vars == <<supVars, monVars, sortCall, genVars>>

(***************************************************************************)
(* Signals of ProcessManager (process_manager.py:26-39).                   *)
(***************************************************************************)
Sig(name, ok, kind, text) ==
    [sig |-> name, ok |-> ok, kind |-> kind, text |-> text]

processStarted == Sig("processStarted", TRUE, "", "")
processStopped == Sig("processStopped", TRUE, "", "")
processError(msg) == Sig("processError", FALSE, "", msg)
pdfExportFinished(ok, kind, text) == Sig("pdfExportFinished", ok, kind, text)

\* The inputs the environment gave the handler that ran last: the exit code and
\* exit status of the subprocess that ended, whether output/main.pdf existed
\* after the exit, whether shutil.move was called and succeeded, the error
\* stream as far as the handler read it.
Info(code, status, exists, moveOk, stderr) ==
    [code |-> code, status |-> status, exists |-> exists, moveOk |-> moveOk,
     stderr |-> stderr]

NoInfo == Info(0, "none", FALSE, FALSE, "")

\* The record kept of one handler run.
\*   outcome    : the branch taken (the message printed or the result kind)
\*   term, kill : calls of self.process.terminate() / self.process.kill()
\*   waited     : what waitForFinished(2000) returned in stop_process
\*   spawn      : which QProcess.start() created a subprocess
\*   exits      : watch subprocess exits observed during the handler
\*   job        : the export job concerned, 0 if none
\*   signals    : the signals emitted, in order
Call(op, outcome, term, kill, waited, spawn, exits, job, info, signals) ==
    [op |-> op, outcome |-> outcome, term |-> term, kill |-> kill,
     waited |-> waited, spawn |-> spawn, exits |-> exits, job |-> job,
     info |-> info, signals |-> signals]

Quiet(op, outcome) ==
    Call(op, outcome, 0, 0, "none", "none", 0, 0, NoInfo, <<>>)

\* An export QProcess: its state, how often on_finished ran for it, and
\* whether deleteLater() released it.
UnusedJob == [st |-> "unused", handled |-> 0, released |-> FALSE]

(***************************************************************************)
(* _get_typst_executable_path: the empty path (None) when the platform is  *)
(* unsupported or the binary is absent, else the path of the binary.       *)
(***************************************************************************)
NoPath == <<>>

\* Faulty variant of _get_typst_executable_path: the is_file() test is missing.
GetTypstExecutablePathNoFileCheck(os, arch, isFile) ==
    IF os = "linux" THEN <<"bin", "linux", arch, "typst_0.14.0">>
    ELSE IF os = "win32" THEN <<"bin", "windows", arch, "typst_0.14.0.exe">>
    ELSE <<>>

NormalizeArch(arch) ==
    IF arch \in {"AMD64", "amd64", "X86_64", "x86_64"} THEN "x86_64" ELSE arch

GetTypstExecutablePath(os, arch, isFile) ==
    IF os = "linux"
    THEN IF isFile THEN <<"bin", "linux", NormalizeArch(arch), "typst_0.14.0">>
                   ELSE NoPath
    ELSE IF os = "win32"
    THEN IF isFile
         THEN <<"bin", "windows", NormalizeArch(arch), "typst_0.14.0.exe">>
         ELSE NoPath
    ELSE NoPath

\* The message _get_typst_executable_path prints when it returns None.
ResolutionReport(os, isFile) ==
    IF os \notin {"linux", "win32"} THEN "unsupported_os"
    ELSE IF ~isFile THEN "exe_not_found"
    ELSE ""

ExecutablePath == GetTypstExecutablePath(osName, machine, exeIsFile)

(***************************************************************************)
(* Initial state: ProcessManager.__init__.                                 *)
(***************************************************************************)
ProcessManagerInit ==
    /\ projectPath = None
    /\ procState = "NotRunning"
    /\ workDir = None
    /\ alive = 0
    /\ \E h \in Hosts : osName = h[1] /\ machine = h[2]
    /\ exeIsFile \in BOOLEAN
    /\ sourcePdf = FALSE
    /\ jobs = [j \in JobIds |-> UnusedJob]
    /\ lastCall = Quiet("init", "")

(***************************************************************************)
(* set_project_path                                                        *)
(***************************************************************************)
SetProjectPath ==
    \E p \in ProjectPaths :
        /\ projectPath' = p
        /\ lastCall' = Quiet("set_project_path", p)
        /\ UNCHANGED <<notSupVars, procState, workDir, alive, osName, machine,
                       exeIsFile, sourcePdf, jobs>>

(***************************************************************************)
(* Signal handlers of the watch process.                                   *)
(***************************************************************************)
\* _handle_started
HandleStarted == <<processStarted>>

\* Faulty variant of _handle_finished: only a clean exit is announced.
HandleFinishedOnlyOnSuccess(exit_code, exit_status) ==
    IF exit_code = 0 /\ exit_status = "NormalExit"
    THEN <<processStopped>> ELSE <<>>

\* _handle_finished
HandleFinished(exit_code, exit_status) == <<processStopped>>

\* _handle_error: the error_messages table
ErrorMessage(error) ==
    IF error = "FailedToStart" THEN "Process error: Failed to start"
    ELSE IF error = "Crashed" THEN "Process error: Process crashed"
    ELSE IF error = "Timedout" THEN "Process error: Process timed out"
    ELSE IF error = "WriteError" THEN "Process error: Write error"
    ELSE IF error = "ReadError" THEN "Process error: Read error"
    ELSE "Process error: Unknown error"

HandleError(error) == <<processError(ErrorMessage(error))>>

\* What QProcess emits when its subprocess ends: errorOccurred(Crashed) first
\* when the exit status is CrashExit, then finished(exit_code, exit_status).
ExitSignals(exit_code, exit_status) ==
    (IF exit_status = "CrashExit" THEN HandleError("Crashed") ELSE <<>>)
        \o HandleFinished(exit_code, exit_status)

(***************************************************************************)
(* start_typst_watch                                                       *)
(***************************************************************************)
\* Faulty variant of the guard: a start is never rejected.
StartNeverRejected(st) == FALSE

\* process_manager.py:111, the guard against a second start.
StartRejected(st) == st # "NotRunning"

StartTypstWatch ==
    LET outcome ==
            IF StartRejected(procState) THEN "already_running"
            ELSE IF projectPath = None THEN "no_project_path"
            ELSE IF ExecutablePath = NoPath
                 THEN ResolutionReport(osName, exeIsFile)
            ELSE "start"
        \* QProcess.start() itself starts nothing unless it is NotRunning.
        spawns == outcome = "start" /\ procState = "NotRunning"
    IN  /\ workDir' = IF outcome = "start" THEN projectPath ELSE workDir
        /\ procState' = IF spawns THEN "Starting" ELSE procState
        /\ alive' = IF spawns THEN alive + 1 ELSE alive
        /\ lastCall' = Call("start", outcome, 0, 0, "none",
                            IF spawns THEN "watch" ELSE "none", 0, 0,
                            NoInfo, <<>>)
        /\ UNCHANGED <<notSupVars, projectPath, osName, machine, exeIsFile, sourcePdf,
                       jobs>>

(***************************************************************************)
(* Events of the watch QProcess delivered by the event loop.               *)
(***************************************************************************)
\* QProcess.started -> _handle_started
WatchStarted ==
    /\ procState = "Starting"
    /\ procState' = "Running"
    /\ lastCall' = Call("watch_started", "", 0, 0, "none", "none", 0, 0,
                        NoInfo, HandleStarted)
    /\ UNCHANGED <<notSupVars, projectPath, workDir, alive, osName, machine, exeIsFile,
                   sourcePdf, jobs>>

\* QProcess.errorOccurred(FailedToStart) -> _handle_error; no finished signal.
WatchFailedToStart ==
    /\ procState = "Starting"
    /\ procState' = "NotRunning"
    /\ alive' = 0
    /\ lastCall' = Call("watch_failed_to_start", "", 0, 0, "none", "none",
                        0, 0, NoInfo, HandleError("FailedToStart"))
    /\ UNCHANGED <<notSupVars, projectPath, workDir, osName, machine, exeIsFile,
                   sourcePdf, jobs>>

\* Faulty variant of the exit handling: a crashed watch process is started
\* again by the handler.
WatchExitedRestarts ==
    \E code \in ExitCodes, status \in ExitStatuses :
        /\ procState = "Running"
        /\ procState' = IF status = "CrashExit" THEN "Starting"
                                                ELSE "NotRunning"
        /\ alive' = IF status = "CrashExit" THEN alive ELSE alive - 1
        /\ lastCall' = Call("watch_exited", "", 0, 0, "none",
                            IF status = "CrashExit" THEN "watch" ELSE "none",
                            1, 0, Info(code, status, FALSE, FALSE, ""),
                            <<processStopped>>)
        /\ UNCHANGED <<notSupVars, projectPath, workDir, osName, machine, exeIsFile,
                       sourcePdf, jobs>>

\* The subprocess ends by itself: QProcess.finished -> _handle_finished,
\* preceded by errorOccurred(Crashed) -> _handle_error after a crash.
WatchExited ==
    \E code \in ExitCodes, status \in ExitStatuses :
        /\ procState = "Running"
        /\ procState' = "NotRunning"
        /\ alive' = alive - 1
        /\ lastCall' = Call("watch_exited", "", 0, 0, "none", "none", 1, 0,
                            Info(code, status, FALSE, FALSE, ""),
                            ExitSignals(code, status))
        /\ UNCHANGED <<notSupVars, projectPath, workDir, osName, machine, exeIsFile,
                       sourcePdf, jobs>>

(***************************************************************************)
(* stop_process                                                            *)
(***************************************************************************)
\* Faulty variant of the guard: stop acts whatever the state.
StopAlwaysApplies(st) == TRUE

\* process_manager.py:141, stop acts only on an active process.
StopApplies(st) == st # "NotRunning"

\* Faulty variant: kill() is called whatever waitForFinished(2000) returned.
KillAlways(finishedInTime) == 1

\* process_manager.py:147, kill() is called iff waitForFinished(2000) is False.
KillCalls(finishedInTime) == IF finishedInTime THEN 0 ELSE 1

\* What waitForFinished(2000) can meet: the process is not running at all, the
\* pending start fails, the subprocess ends in time, or the wait times out.
FirstWaitOutcomes(st) ==
    IF st = "NotRunning" THEN {"not_running"}
    ELSE IF st = "Starting" THEN {"start_failed", "exited", "timeout"}
    ELSE {"exited", "timeout"}

StopProcess ==
    IF ~StopApplies(procState)
    THEN /\ lastCall' = Quiet("stop", "not_running")
         /\ UNCHANGED <<notSupVars, projectPath, procState, workDir, alive, osName,
                        machine, exeIsFile, sourcePdf, jobs>>
    ELSE \E w1 \in FirstWaitOutcomes(procState),
            w2 \in {"exited", "timeout"},
            code \in ExitCodes, status \in ExitStatuses :
         LET \* a pending start is confirmed inside the wait
             started == IF procState = "Starting" /\ w1 \in {"exited", "timeout"}
                        THEN HandleStarted ELSE <<>>
             sig1 == IF w1 = "start_failed" THEN HandleError("FailedToStart")
                     ELSE IF w1 = "exited" THEN ExitSignals(code, status)
                     ELSE <<>>
             state1 == IF w1 = "timeout" THEN "Running" ELSE "NotRunning"
             kill == KillCalls(w1 = "exited")
             \* kill() reaches a subprocess only if one is still there; it
             \* then ends with CrashExit, within waitForFinished(1000) or later
             killed == kill = 1 /\ state1 = "Running" /\ w2 = "exited"
             sig2 == IF killed THEN ExitSignals(code, "CrashExit") ELSE <<>>
             state2 == IF killed THEN "NotRunning" ELSE state1
             nexits == (IF w1 = "exited" THEN 1 ELSE 0)
                       + (IF killed THEN 1 ELSE 0)
         IN  /\ procState' = state2
             /\ alive' = IF state2 = "NotRunning" THEN 0 ELSE alive
             /\ lastCall' = Call("stop",
                                 IF kill = 1 THEN "killing" ELSE "stopping",
                                 1, kill,
                                 IF w1 = "exited" THEN "exited"
                                                  ELSE "not_exited",
                                 "none", nexits, 0,
                                 IF nexits = 0 THEN NoInfo
                                 ELSE Info(code,
                                           IF killed THEN "CrashExit"
                                                     ELSE status,
                                           FALSE, FALSE, ""),
                                 started \o sig1 \o sig2)
             /\ UNCHANGED <<notSupVars, projectPath, workDir, osName, machine,
                            exeIsFile, sourcePdf, jobs>>

(***************************************************************************)
(* export_pdf                                                              *)
(***************************************************************************)
FreeJobs == {j \in JobIds : jobs[j].st = "unused"}

\* Faulty variant: the export QProcess is kept in one shared attribute, so a
\* new request destroys the QProcess of an export that is still under way.
SpawnExportJobShared(js, j) ==
    [k \in DOMAIN js |->
        IF k = j THEN [js[k] EXCEPT !.st = "starting"]
        ELSE IF js[k].st \in {"starting", "running"}
             THEN [js[k] EXCEPT !.st = "failed_to_start"]
             ELSE js[k]]

\* process_manager.py:197-223: every request creates its own QProcess, held
\* only by its on_finished closure, and starts it.
SpawnExportJob(js, j) == [js EXCEPT ![j].st = "starting"]

ExportPdf ==
    \E dest \in DestinationKinds, mkdirOk \in BOOLEAN :
        LET outcome ==
                IF projectPath = None THEN "no_project"
                ELSE IF ExecutablePath = NoPath THEN "exe_not_found"
                ELSE IF dest = "not_a_folder" THEN "dest_not_folder"
                ELSE IF dest = "raises" THEN "dest_invalid"
                ELSE IF ~mkdirOk THEN "raised_mkdir"
                ELSE "spawn"
        IN  IF outcome = "spawn"
            THEN /\ FreeJobs # {}
                 /\ LET j == CHOOSE k \in FreeJobs :
                                 \A m \in FreeJobs : k <= m
                    IN  /\ jobs' = SpawnExportJob(jobs, j)
                        /\ lastCall' = Call("export", outcome, 0, 0, "none",
                                            "export", 0, j, NoInfo, <<>>)
                 /\ UNCHANGED <<notSupVars, projectPath, procState, workDir, alive,
                                osName, machine, exeIsFile, sourcePdf>>
            ELSE /\ lastCall' =
                        Call("export", outcome, 0, 0, "none", "none", 0, 0,
                             NoInfo,
                             IF outcome = "raised_mkdir" THEN <<>>
                             ELSE <<pdfExportFinished(FALSE, outcome, "")>>)
                 /\ UNCHANGED <<notSupVars, projectPath, procState, workDir, alive,
                                osName, machine, exeIsFile, sourcePdf, jobs>>

\* Faulty variant of on_finished: the output file is not looked for.
OnFinishedNoExistsCheck(exit_code, exit_status, exists, moveOk, stderr) ==
    IF exit_status = "NormalExit" /\ exit_code = 0
    THEN IF moveOk THEN pdfExportFinished(TRUE, "success", "")
                   ELSE pdfExportFinished(FALSE, "move_failed", "")
    ELSE pdfExportFinished(FALSE, "process_failed", stderr)

\* Faulty variant of on_finished: the error stream is not read.
OnFinishedDropsStderr(exit_code, exit_status, exists, moveOk, stderr) ==
    IF exit_status = "NormalExit" /\ exit_code = 0
    THEN IF exists
         THEN IF moveOk THEN pdfExportFinished(TRUE, "success", "")
                        ELSE pdfExportFinished(FALSE, "move_failed", "")
         ELSE pdfExportFinished(FALSE, "artifact_missing", "")
    ELSE pdfExportFinished(FALSE, "process_failed", "")

\* export_pdf.on_finished: the result reported for an ended export subprocess.
OnFinished(exit_code, exit_status, exists, moveOk, stderr) ==
    IF exit_status = "NormalExit" /\ exit_code = 0
    THEN IF exists
         THEN IF moveOk THEN pdfExportFinished(TRUE, "success", "")
                        ELSE pdfExportFinished(FALSE, "move_failed", "")
         ELSE pdfExportFinished(FALSE, "artifact_missing", "")
    ELSE pdfExportFinished(FALSE, "process_failed", stderr)

\* The export subprocess is confirmed started; no handler is connected.
ExportStarted ==
    \E j \in JobIds :
        /\ jobs[j].st = "starting"
        /\ jobs' = [jobs EXCEPT ![j].st = "running"]
        /\ lastCall' = Call("export_started", "", 0, 0, "none", "none", 0, j,
                            NoInfo, <<>>)
        /\ UNCHANGED <<notSupVars, projectPath, procState, workDir, alive, osName,
                       machine, exeIsFile, sourcePdf>>

\* The export subprocess fails to start: errorOccurred has no handler and
\* finished is not emitted, so on_finished never runs for this QProcess.
ExportFailedToStart ==
    \E j \in JobIds :
        /\ jobs[j].st = "starting"
        /\ jobs' = [jobs EXCEPT ![j].st = "failed_to_start"]
        /\ lastCall' = Call("export_failed_to_start", "", 0, 0, "none",
                            "none", 0, j, NoInfo, <<>>)
        /\ UNCHANGED <<notSupVars, projectPath, procState, workDir, alive, osName,
                       machine, exeIsFile, sourcePdf>>

\* Faulty variant: deleteLater() is reached only after a successful export.
ReleasedOnlyOnSuccess(result) == result.ok

\* process_manager.py:220: deleteLater() runs on every path of on_finished.
ReleasedAfterFinished(result) == TRUE

\* on_finished calls shutil.move only after a clean exit that left the file,
\* and reads the error stream only after any other exit.
MoveTried(exit_code, exit_status, exists) ==
    exit_status = "NormalExit" /\ exit_code = 0 /\ exists

StderrRead(exit_code, exit_status) ==
    ~(exit_status = "NormalExit" /\ exit_code = 0)

\* The export subprocess ends: finished -> on_finished, then deleteLater().
\* The compiler may have written output/main.pdf before it ended.
ExportFinishedJob(j) ==
    \E code \in ExitCodes, status \in ExitStatuses,
       wrote \in BOOLEAN, moveOk \in BOOLEAN, stderr \in StderrTexts :
        LET exists == sourcePdf \/ wrote
            result == OnFinished(code, status, exists, moveOk, stderr)
        IN  /\ jobs[j].st = "running"
            /\ jobs' = [jobs EXCEPT ![j] =
                            [st |-> "done", handled |-> @.handled + 1,
                             released |-> ReleasedAfterFinished(result)]]
            /\ sourcePdf' = IF result.ok THEN FALSE ELSE exists
            /\ lastCall' = Call("export_finished", result.kind, 0, 0, "none",
                                "none", 0, j,
                                Info(code, status, exists,
                                     MoveTried(code, status, exists) /\ moveOk,
                                     IF StderrRead(code, status) THEN stderr
                                                                 ELSE ""),
                                <<result>>)
            /\ UNCHANGED <<notSupVars, projectPath, procState, workDir, alive, osName,
                           machine, exeIsFile>>

ExportFinished == \E j \in JobIds : ExportFinishedJob(j)

(***************************************************************************)
(* The file system: the bundled compiler binary is installed or removed.   *)
(***************************************************************************)
BinaryChange ==
    /\ exeIsFile' = ~exeIsFile
    /\ lastCall' = Quiet("binary_change", "")
    /\ UNCHANGED <<notSupVars, projectPath, procState, workDir, alive, osName, machine,
                   sourcePdf, jobs>>

(***************************************************************************)
(* Part 2: the output artifact tracker, app/backend/output_monitor.py.     *)
(* OutputMonitor watches <project>/output for the page files p*.svg that   *)
(* the compiler writes.  Its slots and signal handlers are the actions;    *)
(* the file system and the wall clock are the environment.  The monitored  *)
(* directory is the output directory of one project: set_project_path      *)
(* creates it when it is missing, and a directory without page files       *)
(* behaves like a missing one in every handler (an empty list).            *)
(***************************************************************************)
\* A file name (Path.stem) is the sequence of its characters.
P2 == <<"p", "2">>
P10 == <<"p", "1", "0">>

\* The page files that may appear in the output directory: p2.svg and
\* p10.svg, which the page index and the file name order differently.
PageFiles == {P2, P10}

\* Values of st_mtime of one file: every write gives the file a later one.
Mtimes == 0..MaxMtime

\* Values of int(time.time() * 1000).
Times == 1..MaxTime

\* file_timestamps[file_key]: (mtime, cache_buster), or no entry.
NoStamp == [seen |-> FALSE, mtime |-> 0, token |-> 0]
Stamp(mtime, token) == [seen |-> TRUE, mtime |-> mtime, token |-> token]

\* f"file://{file_key}?t={cache_buster}"
Url(file_key, cache_buster) == [path |-> file_key, t |-> cache_buster]

\* Signals of OutputMonitor (output_monitor.py:33-34).
filesChanged(urls) == [name |-> "filesChanged", urls |-> urls, index |-> -1]
activePageChanged(index) ==
    [name |-> "activePageChanged", urls |-> <<>>, index |-> index]

Range(s) == {s[i] : i \in 1..Len(s)}

(***************************************************************************)
(* _get_sorted_svg_files: glob("p*.svg") in the order the file system      *)
(* enumerates, then list.sort (a stable sort) by get_page_number.          *)
(***************************************************************************)
DigitChars == <<"0", "1", "2", "3", "4", "5", "6", "7", "8", "9">>

IsDigit(c) == \E d \in 1..10 : DigitChars[d] = c

DigitValue(c) == (CHOOSE d \in 1..10 : DigitChars[d] = c) - 1

RECURSIVE DecimalValue(_, _)
DecimalValue(chars, acc) ==
    IF chars = <<>> THEN acc
    ELSE DecimalValue(Tail(chars), acc * 10 + DigitValue(Head(chars)))

\* int(text): an optional sign and at least one digit, else ValueError.
ParseInt(chars) ==
    LET signed == chars # <<>> /\ Head(chars) \in {"-", "+"}
        digits == IF signed THEN Tail(chars) ELSE chars
        ok == digits # <<>> /\ \A i \in 1..Len(digits) : IsDigit(digits[i])
        value == IF ok THEN DecimalValue(digits, 0) ELSE 0
    IN  [ok |-> ok,
         value |-> IF signed /\ Head(chars) = "-" THEN 0 - value ELSE value]

\* Faulty variant: the characters after 'p' are not read at all.
GetPageNumberAlwaysZero(stem) == 0

\* get_page_number: int(name[1:]) for a name that starts with 'p', and 0
\* for any other name and for a ValueError.
GetPageNumber(stem) ==
    IF stem # <<>> /\ Head(stem) = "p"
    THEN LET parsed == ParseInt(Tail(stem))
         IN  IF parsed.ok THEN parsed.value ELSE 0
    ELSE 0

\* list.sort is stable: an element goes behind the elements whose key is
\* not larger than its own.
RECURSIVE InsertByPage(_, _)
InsertByPage(sorted, file) ==
    IF sorted = <<>> THEN <<file>>
    ELSE IF GetPageNumber(Head(sorted)) <= GetPageNumber(file)
         THEN <<Head(sorted)>> \o InsertByPage(Tail(sorted), file)
         ELSE <<file>> \o sorted

RECURSIVE SortByPage(_, _)
SortByPage(listed, sorted) ==
    IF listed = <<>> THEN sorted
    ELSE SortByPage(Tail(listed), InsertByPage(sorted, Head(listed)))

GetSortedSvgFiles(listed) == SortByPage(listed, <<>>)

\* The orders in which the file system may enumerate a set of files.
Enumerations(files) ==
    {s \in [1..Cardinality(files) -> files] :
        \A i, j \in 1..Cardinality(files) : s[i] = s[j] => i = j}

(***************************************************************************)
(* _build_urls_with_cache_busting                                          *)
(***************************************************************************)
\* output_monitor.py:231-253: the entry gets a new cache buster when the
\* path has no entry yet or its recorded mtime differs from the current one.
EntryChanged(stamp, current_mtime) ==
    IF stamp.seen THEN current_mtime # stamp.mtime ELSE TRUE

\* Faulty variant: every entry gets the time of the scan.
CacheBusterAlwaysNew(stamp, current_mtime, current_time) == current_time

CacheBuster(stamp, current_mtime, current_time) ==
    IF EntryChanged(stamp, current_mtime) THEN current_time ELSE stamp.token

\* Faulty variant: the index of the last changed entry is kept.
LastChangedIndex(first_changed_index, idx, changed) ==
    IF changed THEN idx ELSE first_changed_index

FirstChangedIndex(first_changed_index, idx, changed) ==
    IF changed /\ first_changed_index = -1 THEN idx
    ELSE first_changed_index

\* The loop over enumerate(files), from position pos (idx = pos - 1) on.
\*   dir    : the files of the directory (present, mtime, whether stat works)
\*   acc    : urls, file_timestamps and first_changed_index so far; assigned
\*            is the set of paths that got a new cache buster
RECURSIVE BuildUrlsFrom(_, _, _, _, _)
BuildUrlsFrom(files, pos, dir, current_time, acc) ==
    IF pos > Len(files) THEN acc
    ELSE
        LET file_key == files[pos]
            stamp == acc.stamps[file_key]
            current_mtime == dir[file_key].mtime
            changed == EntryChanged(stamp, current_mtime)
            cache_buster == CacheBuster(stamp, current_mtime, current_time)
            next ==
                IF dir[file_key].statOk
                THEN [urls |-> Append(acc.urls, Url(file_key, cache_buster)),
                      stamps |->
                          IF changed
                          THEN [acc.stamps EXCEPT ![file_key] =
                                    Stamp(current_mtime, cache_buster)]
                          ELSE acc.stamps,
                      index |-> FirstChangedIndex(acc.index, pos - 1, changed),
                      assigned |-> IF changed
                                   THEN acc.assigned \cup {file_key}
                                   ELSE acc.assigned]
                ELSE [acc EXCEPT
                          !.urls = Append(acc.urls, Url(file_key, current_time))]
        IN  BuildUrlsFrom(files, pos + 1, dir, current_time, next)

\* Faulty variant: a file on which stat fails is left out of the list.
BuildUrlsSkippingUnreadable(files, dir, stamps, current_time) ==
    LET Readable(file_key) == dir[file_key].statOk
    IN  BuildUrlsFrom(SelectSeq(files, Readable), 1, dir, current_time,
                      [urls |-> <<>>, stamps |-> stamps, index |-> -1,
                       assigned |-> {}])

BuildUrlsWithCacheBusting(files, dir, stamps, current_time) ==
    BuildUrlsFrom(files, 1, dir, current_time,
                  [urls |-> <<>>, stamps |-> stamps, index |-> -1,
                   assigned |-> {}])

(***************************************************************************)
(* The handlers of OutputMonitor.                                          *)
(***************************************************************************)
\* The page files the directory holds.
PresentFiles == {f \in PageFiles : dirFiles[f].present}

\* Faulty variant: the page index is announced for an empty directory too.
ScanSignalsWithIndexAlways(files, urls, changed_index) ==
    <<filesChanged(urls), activePageChanged(IF changed_index = -1
                                            THEN 0 ELSE changed_index)>>

\* output_monitor.py:163-179: what _scan_and_emit emits.
ScanSignals(files, urls, changed_index) ==
    IF files # <<>>
    THEN <<filesChanged(urls)>>
             \o (IF changed_index # -1
                 THEN <<activePageChanged(changed_index)>> ELSE <<>>)
    ELSE <<filesChanged(<<>>)>>

\* Faulty variant: new page files are not given to the watcher.
WatchedAfterScanUnchanged(watched, files) == watched

\* output_monitor.py:165-171: watcher.addPath for every file not yet watched.
WatchedAfterScan(watched, files) == watched \cup Range(files)

\* _scan_and_emit, entered with the watcher's file list watched.
ScanAndEmit(watched) ==
    \E listed \in Enumerations(PresentFiles) :
        LET files == GetSortedSvgFiles(listed)
            built == BuildUrlsWithCacheBusting(files, dirFiles,
                                               fileTimestamps, now)
        IN  /\ watchedFiles' = WatchedAfterScan(watched, files)
            /\ fileTimestamps' = built.stamps
            /\ issued' = IF built.assigned = {} THEN issued
                         ELSE issued \cup {now}
            /\ lastScan' = ScanSignals(files, built.urls, built.index)

\* OutputMonitor.__init__
OutputMonitorInit ==
    /\ outputPathSet = FALSE
    /\ watchedDir = FALSE
    /\ watchedFiles = {}
    /\ pollActive = FALSE
    /\ fileTimestamps = [f \in PageFiles |-> NoStamp]
    /\ issued = {}
    /\ lastScan = <<>>

\* The file system and the clock when the application starts.
EnvironmentInit ==
    /\ dirFiles = [f \in PageFiles |->
                      [present |-> FALSE, mtime |-> 0, statOk |-> TRUE]]
    /\ now = 1

\* set_project_path
MonitorSetProjectPath ==
    /\ outputPathSet' = TRUE
    /\ watchedDir' = TRUE
    /\ pollActive' = TRUE
    /\ ScanAndEmit({})
    /\ UNCHANGED <<notMonVars, dirFiles, now>>

\* stop_monitoring
StopMonitoring ==
    /\ pollActive' = FALSE
    /\ watchedDir' = FALSE
    /\ watchedFiles' = {}
    /\ UNCHANGED <<notMonVars, outputPathSet, fileTimestamps, issued,
                   lastScan, dirFiles, now>>

\* get_output_files
GetOutputFiles ==
    IF ~outputPathSet
    THEN UNCHANGED vars
    ELSE \E listed \in Enumerations(PresentFiles) :
            LET files == GetSortedSvgFiles(listed)
                built == BuildUrlsWithCacheBusting(files, dirFiles,
                                                   fileTimestamps, now)
            IN  /\ fileTimestamps' = built.stamps
                /\ issued' = IF built.assigned = {} THEN issued
                             ELSE issued \cup {now}
                /\ UNCHANGED <<notMonVars, outputPathSet, watchedDir,
                               watchedFiles, pollActive, lastScan, dirFiles,
                               now>>

\* _on_directory_changed: the watcher reports the watched directory.
OnDirectoryChanged ==
    /\ watchedDir
    /\ ScanAndEmit(watchedFiles)
    /\ UNCHANGED <<notMonVars, outputPathSet, watchedDir, pollActive,
                   dirFiles, now>>

\* _on_file_changed: the watcher reports one of the watched files.
OnFileChanged ==
    /\ watchedFiles # {}
    /\ ScanAndEmit(watchedFiles)
    /\ UNCHANGED <<notMonVars, outputPathSet, watchedDir, pollActive,
                   dirFiles, now>>

\* output_monitor.py:143-153: the poll rescans when a file that has an
\* entry in file_timestamps shows another mtime than the recorded one.
PollSeesChange(dir, stamps) ==
    \E f \in PageFiles :
        /\ dir[f].present /\ dir[f].statOk
        /\ stamps[f].seen
        /\ dir[f].mtime # stamps[f].mtime

\* _check_for_changes: the timeout of poll_timer.
CheckForChanges ==
    /\ pollActive
    /\ IF PollSeesChange(dirFiles, fileTimestamps)
       THEN ScanAndEmit(watchedFiles)
       ELSE UNCHANGED <<watchedFiles, fileTimestamps, issued, lastScan>>
    /\ UNCHANGED <<notMonVars, outputPathSet, watchedDir, pollActive,
                   dirFiles, now>>

(***************************************************************************)
(* The environment of the tracker: the compiler (or anything else) changes *)
(* the output directory, and time passes.                                  *)
(***************************************************************************)
\* A page file is created, once in a run; stat may fail on it (a dangling
\* link, a directory that cannot be searched).
AddFile ==
    \E f \in PageFiles, ok \in BOOLEAN :
        /\ ~dirFiles[f].present
        /\ dirFiles[f].mtime = 0
        /\ dirFiles' = [dirFiles EXCEPT ![f] =
               [present |-> TRUE, mtime |-> dirFiles[f].mtime + 1,
                statOk |-> ok]]
        /\ UNCHANGED <<notMonVars, outputPathSet, watchedDir, watchedFiles, pollActive,
                       fileTimestamps, issued, lastScan, now>>

\* A page file is written again; stat may work or fail on it from then on.
ModifyFile ==
    \E f \in PageFiles, ok \in BOOLEAN :
        /\ dirFiles[f].present
        /\ dirFiles[f].mtime < MaxMtime
        /\ dirFiles' = [dirFiles EXCEPT ![f].mtime = @ + 1,
                                        ![f].statOk = ok]
        /\ UNCHANGED <<notMonVars, outputPathSet, watchedDir, watchedFiles, pollActive,
                       fileTimestamps, issued, lastScan, now>>

\* A page file is removed; QFileSystemWatcher drops a removed file.
RemoveFile ==
    \E f \in PageFiles :
        /\ dirFiles[f].present
        /\ dirFiles' = [dirFiles EXCEPT ![f].present = FALSE,
                                        ![f].statOk = TRUE]
        /\ watchedFiles' = watchedFiles \ {f}
        /\ UNCHANGED <<notMonVars, outputPathSet, watchedDir, pollActive, fileTimestamps,
                       issued, lastScan, now>>

\* The millisecond clock advances.
Tick ==
    /\ now < MaxTime
    /\ now' = now + 1
    /\ UNCHANGED <<notMonVars, outputPathSet, watchedDir, watchedFiles, pollActive,
                   fileTimestamps, issued, lastScan, dirFiles>>

(***************************************************************************)
(* _get_sorted_svg_files on its own: any listing of file names that match  *)
(* p*.svg, in any order of enumeration.                                    *)
(***************************************************************************)
PX == <<"p", "x">>
PBare == <<"p">>
P02 == <<"p", "0", "2">>
PMinus1 == <<"p", "-", "1">>

\* p2.svg, p10.svg, px.svg, p.svg, p02.svg and p-1.svg
ListedNames == {P2, P10, PX, PBare, P02, PMinus1}

\* glob results: every subset of the names in every order
Listings ==
    UNION {Enumerations(names) : names \in SUBSET ListedNames}

NotSorted == [listed |-> <<>>, sorted |-> <<>>, done |-> FALSE]

SortInit == \E listed \in Listings : sortCall = [NotSorted EXCEPT !.listed = listed]

SortListing ==
    /\ ~sortCall.done
    /\ sortCall' = [sortCall EXCEPT !.sorted = GetSortedSvgFiles(sortCall.listed),
                                    !.done = TRUE]
    /\ UNCHANGED notSortVars

(***************************************************************************)
(* Part 3: the document generator, app/backend/apa7_form_handler.py.       *)
(* Apa7FormHandler.generate_main_typ writes one file per level-1 section   *)
(* into <project>/sections, then main.typ, then form_data.json.  A text   *)
(* (str) is the sequence of its characters; the content of a file is the   *)
(* sequence of the pieces that the code joins with line breaks.            *)
(***************************************************************************)
\* Ids of level-1 sections: two ids, and the empty id for a section without
\* one.
SectionIds == {"", "s1", "s2"}

\* The id of the sections below level 1; the code reads it and never uses it.
SubsectionId == "s3"

\* uuid.uuid4(): the value of the draw number k of a run.  No two draws
\* give the same value.
Uuid(k) == <<"uuid-", DigitChars[k + 1]>>

Empty == <<>>

\* Blocks of a section (the dictionaries of section["blocks"]).
TextBlock(content) ==
    [type |-> "text", content |-> content, path |-> Empty,
     caption |-> Empty, note |-> Empty, label |-> Empty]

ImageBlock(path, caption, note, label) ==
    [type |-> "image", content |-> Empty, path |-> path,
     caption |-> caption, note |-> note, label |-> label]

\* The block lists a user may give to a new section: one text block, or one
\* image block that has no label yet.
Bodies ==
    {<<TextBlock(<<"5", "$">>)>>,
     <<ImageBlock(<<"a", "\\", "b">>, <<"C", "#">>, Empty, Empty)>>}

\* The sections a user may add.
NewSections ==
    [id : SectionIds, title : {<<"T", "[", "1", "]">>}, level : {1},
     blocks : Bodies, content : {Empty}]
    \cup [id : {SubsectionId}, title : {<<"T", "[", "1", "]">>}, level : {2},
          blocks : Bodies, content : {Empty}]

\* Authors and affiliations of the form.
Author(name, orcid, affiliationIds) ==
    [name |-> name, orcid |-> orcid, affiliationIds |-> affiliationIds]

Affiliation(id, name) == [id |-> id, name |-> name]

\* The arguments of generate_main_typ other than sections.
BlankForm ==
    [title |-> Empty, authors |-> <<>>, affiliations |-> <<>>,
     running_head |-> Empty, author_notes |-> Empty, course |-> Empty,
     instructor |-> Empty, due_date |-> Empty, abstract |-> Empty,
     keywords |-> Empty, font_family |-> <<"A", "r", "i", "a", "l">>, font_size |-> <<"1", "2">>,
     paper_size |-> <<"a", "4">>, region |-> <<"u", "s">>, language |-> <<"e", "n">>,
     implicit_intro |-> FALSE, abstract_as_desc |-> FALSE]

StudentForm ==
    [BlankForm EXCEPT
        !.title = <<"A", "$", "B">>,
        !.authors = <<Author(<<"A", "n", "n">>, <<"0", "-", "1">>, <<"af2", "afX", "af1">>),
                      Author(<<"B", "o">>, Empty, <<>>)>>,
        !.affiliations = <<Affiliation("af1", <<"U", "1">>),
                           Affiliation("af2", <<"U", "2">>)>>,
        !.author_notes = <<"n", "#">>,
        !.course = <<"C", "1">>,
        !.abstract = <<"a", "b">>,
        !.keywords = <<"k", "1", ",", " ", ",", "k", "]">>,
        !.abstract_as_desc = TRUE]

Forms == {BlankForm, StudentForm}

\* Longest title of the forms that vary the title.
MaxTextLen == 3

\* The lists of affiliation ids an author may refer to: up to two of the
\* ids af1 and af2 and of afX, which no affiliation has.
References ==
    LET ids == {"af1", "af2", "afX"}
    IN  {<<>>} \cup {<<a>> : a \in ids} \cup {<<a, b>> : a, b \in ids}

\* The author lists of a form: none, a first author with or without name
\* and ORCID iD, and a second author with at most one reference.
AuthorLists ==
    LET first == {Author(n, o, r) :
                     n \in {Empty, <<"A", "n", "n">>},
                     o \in {Empty, <<"0">>}, r \in References}
        second == {Author(<<"B", "o">>, Empty, r) :
                      r \in {q \in References : Len(q) <= 1}}
    IN  {<<>>} \cup {<<a>> : a \in first}
               \cup {<<a, b>> : a \in first, b \in second}

\* The affiliation lists of a form: up to two affiliations with different
\* ids, with or without name.
AffiliationLists ==
    LET one == {Affiliation(i, n) :
                   i \in {"af1", "af2"}, n \in {Empty, <<"U">>}}
        two == {p \in one \X one : p[1].id # p[2].id}
    IN  {<<>>} \cup {<<a>> : a \in one} \cup {<<p[1], p[2]>> : p \in two}

\* The characters of a title: a letter and the five that are escaped.
Specials == {"\\", "[", "]", "#", "$"}

Texts ==
    UNION {[1..n -> Specials \cup {"a"}] : n \in 0..MaxTextLen}
        \cup {t \in [1..5 -> Specials] :
                 \A i, j \in 1..5 : t[i] = t[j] => i = j}

\* The forms whose emission is examined: those that vary the authors and
\* the affiliations, and those that vary the title.
EmissionForms ==
    UNION {{[BlankForm EXCEPT !.authors = a, !.affiliations = f,
                              !.author_notes = n] :
               f \in AffiliationLists,
               n \in IF a # <<>> /\ a[1].orcid # Empty
                     THEN {Empty, <<"N">>} ELSE {Empty}} :
           a \in AuthorLists}
    \cup {[BlankForm EXCEPT !.title = t] : t \in Texts}

(***************************************************************************)
(* _escape_typst                                                           *)
(***************************************************************************)
\* str.replace(old, new) for a one-character old.
RECURSIVE Replace(_, _, _)
Replace(text, old, new) ==
    IF text = <<>> THEN <<>>
    ELSE (IF Head(text) = old THEN new ELSE <<Head(text)>>)
             \o Replace(Tail(text), old, new)

\* Faulty variant: the backslash is escaped last.
EscapeTypstBackslashLast(text) ==
    IF text = <<>> THEN <<>>
    ELSE LET t1 == Replace(text, "[", <<"\\", "[">>)
             t2 == Replace(t1, "]", <<"\\", "]">>)
             t3 == Replace(t2, "#", <<"\\", "#">>)
             t4 == Replace(t3, "$", <<"\\", "$">>)
         IN  Replace(t4, "\\", <<"\\", "\\">>)

EscapeTypst(text) ==
    IF text = <<>> THEN <<>>
    ELSE LET t1 == Replace(text, "\\", <<"\\", "\\">>)
             t2 == Replace(t1, "[", <<"\\", "[">>)
             t3 == Replace(t2, "]", <<"\\", "]">>)
             t4 == Replace(t3, "#", <<"\\", "#">>)
         IN  Replace(t4, "$", <<"\\", "$">>)

(***************************************************************************)
(* The section files.                                                      *)
(***************************************************************************)
\* One part of a section body: a text, or the code of a figure.
TextPart(content) ==
    [type |-> "text", text |-> content, path |-> Empty, caption |-> Empty,
     label |-> Empty, note |-> Empty]

\* apa7_form_handler.py:146-172: fig_code of an image block whose label is
\* label.
FigCode(block, label) ==
    [type |-> "figure", text |-> Empty,
     path |-> <<".", ".", "/">> \o Replace(block.path, "\\", <<"/">>),
     caption |-> EscapeTypst(block.caption),
     label |-> label,
     note |-> EscapeTypst(block.note)]

\* Faulty variant: an image block gets a new label in every generation.
LabelOfAlwaysNew(block, uuid) == <<"img:">> \o uuid

\* apa7_form_handler.py:151-154: the label of an image block, a new one
\* when the block has none.
LabelOf(block, uuid) ==
    IF block.label = Empty THEN <<"img:">> \o uuid ELSE block.label

\* apa7_form_handler.py:137-175: the loop over the blocks of a section from
\* number pos on.
\*   acc : the parts collected so far, the blocks as the loop leaves them
\*         (block["label"] = label) and the number of uuid4 draws so far
RECURSIVE BlockLoop(_, _, _)
BlockLoop(blocks, pos, acc) ==
    IF pos > Len(blocks) THEN acc
    ELSE
        LET block == blocks[pos]
            label == LabelOf(block, Uuid(acc.drawn + 1))
            next ==
                IF block.type = "text"
                THEN [acc EXCEPT !.parts = Append(@, TextPart(block.content))]
                ELSE IF block.type = "image"
                THEN [acc EXCEPT
                        !.parts = Append(@, FigCode(block, label)),
                        !.blocks[pos].label = label,
                        !.drawn = IF block.label = Empty THEN @ + 1 ELSE @]
                ELSE acc
        IN  BlockLoop(blocks, pos + 1, next)

\* sec_content: from the blocks, or from the flat content field; with the
\* blocks and the number of draws as the section leaves them.
SecContent(section, drawn) ==
    IF section.blocks # <<>>
    THEN BlockLoop(section.blocks, 1,
                   [parts |-> <<>>, blocks |-> section.blocks,
                    drawn |-> drawn])
    ELSE [parts |-> <<TextPart(section.content)>>,
          blocks |-> section.blocks, drawn |-> drawn]

\* full_content: the heading markup and the body.
FullContent(section, parts) ==
    [level |-> section.level, title |-> EscapeTypst(section.title),
     body |-> parts]

\* file_content: the import line and the contents of the run.
FileContent(contents) ==
    [import |-> "#import \"@preview/versatile-apa:7.1.5\": *",
     contents |-> contents]

\* A write of <sections_dir>/<id>.typ, made while section number at is
\* the last one the loop has read and drawn uuid4 values are drawn.
SectionWrite(id, contents, at, drawn) ==
    [id |-> id, content |-> FileContent(contents), at |-> at,
     drawn |-> drawn]

\* Faulty variant: a section of any level starts a new file.
StartsRunAlways(section) == TRUE

\* apa7_form_handler.py:178: a level-1 section starts a new run.
StartsRun(section) == section.level = 1

\* apa7_form_handler.py:129-190: the loop over the sections from number pos
\* on, and the write of the final run.
\*   acc : current_l1_id, current_l1_content, the writes made so far, the
\*         sections as the loop leaves them (labels filled) and the number
\*         of uuid4 draws so far
RECURSIVE SectionLoop(_, _, _)
SectionLoop(sections, pos, acc) ==
    IF pos > Len(sections)
    THEN IF acc.current_l1_id # ""
         THEN [acc EXCEPT !.writes =
                  Append(@, SectionWrite(acc.current_l1_id,
                                         acc.current_l1_content,
                                         Len(sections), acc.drawn))]
         ELSE acc
    ELSE
        LET section == sections[pos]
            body == SecContent(section, acc.drawn)
            full_content == FullContent(section, body.parts)
            read == [acc EXCEPT !.sections[pos].blocks = body.blocks,
                                !.drawn = body.drawn]
            next ==
                IF StartsRun(section)
                THEN [read EXCEPT
                        !.writes =
                            IF acc.current_l1_id # ""
                            THEN Append(@, SectionWrite(acc.current_l1_id,
                                            acc.current_l1_content, pos,
                                            body.drawn))
                            ELSE @,
                        !.current_l1_id = section.id,
                        !.current_l1_content = <<full_content>>]
                ELSE IF acc.current_l1_id # ""
                     THEN [read EXCEPT !.current_l1_content =
                              Append(@, full_content)]
                     ELSE read
        IN  SectionLoop(sections, pos + 1, next)

\* The loop of one generation that starts when drawn uuid4 values are
\* drawn.
WriteSections(sections, drawn) ==
    SectionLoop(sections, 1,
                [current_l1_id |-> "", current_l1_content |-> <<>>,
                 writes |-> <<>>, sections |-> sections, drawn |-> drawn])

(***************************************************************************)
(* _build_main_typ_content                                                 *)
(***************************************************************************)
\* A line of main.typ: a fixed line, or a line of some kind that carries a
\* text.
Line(kind, text) == [kind |-> kind, text |-> text]

Static(line) == Line("static", <<line>>)

\* The concatenation of the sequences of lines seqs[pos], seqs[pos + 1], ...
RECURSIVE JoinLines(_, _)
JoinLines(seqs, pos) ==
    IF pos > Len(seqs) THEN <<>>
    ELSE seqs[pos] \o JoinLines(seqs, pos + 1)

\* Faulty variant: the token counts the affiliations from 0.
AfTokenFromZero(position) == <<"A", "F", "-", DigitChars[position]>>

\* f'"AF-{idx + 1}"' for the position idx + 1 in the affiliation list.
AfToken(position) == <<"A", "F", "-", DigitChars[position + 1]>>

\* Faulty variant: an id that no affiliation has gets a token too.
AfTokensOfAnyId(aff_id, affiliations) ==
    LET found == {k \in 1..Len(affiliations) : affiliations[k].id = aff_id}
    IN  IF found = {} THEN <<AfToken(Len(affiliations) + 1)>>
        ELSE <<AfToken(CHOOSE k \in found : \A m \in found : k <= m)>>

\* apa7_form_handler.py:408-415: the token of an affiliation id, none when
\* no affiliation has the id.
AfTokensOf(aff_id, affiliations) ==
    LET found == {k \in 1..Len(affiliations) : affiliations[k].id = aff_id}
    IN  IF found = {} THEN <<>>
        ELSE <<AfToken(CHOOSE k \in found : \A m \in found : k <= m)>>

RECURSIVE AfIds(_, _)
AfIds(affiliation_ids, affiliations) ==
    IF affiliation_ids = <<>> THEN <<>>
    ELSE AfTokensOf(Head(affiliation_ids), affiliations)
             \o AfIds(Tail(affiliation_ids), affiliations)

\* ', '.join(af_ids)
RECURSIVE JoinComma(_)
JoinComma(tokens) ==
    IF tokens = <<>> THEN <<>>
    ELSE IF Len(tokens) = 1 THEN <<"\"">> \o Head(tokens) \o <<"\"">>
    ELSE <<"\"">> \o Head(tokens) \o <<"\"", ",", " ">>
             \o JoinComma(Tail(tokens))

\* Faulty variant: every author with a name is emitted.
AuthorEmittedIfNamed(author) == author.name # Empty

\* apa7_form_handler.py:404: the authors that are emitted.
AuthorEmitted(author) ==
    author.name # Empty /\ author.affiliationIds # <<>>

BuildAuthorsSection(authors, affiliations) ==
    LET AuthorLines(author, k) ==
            IF AuthorEmitted(author)
            THEN LET af_ids == AfIds(author.affiliationIds, affiliations)
                 IN  <<Static("    ("),
                       Line("author name", EscapeTypst(author.name))>>
                     \o (IF af_ids # <<>>
                         THEN <<Line("author affiliations",
                                     JoinComma(af_ids))>>
                         ELSE <<>>)
                     \o <<Static("    ),")>>
            ELSE <<>>
        AffiliationLines(affiliation, k) ==
            IF affiliation.name # Empty
            THEN <<Static("    ("),
                   Line("affiliation id", AfToken(k)),
                   Line("affiliation name", EscapeTypst(affiliation.name)),
                   Static("    ),")>>
            ELSE <<>>
    IN  <<Static("  // Authors and affiliations"), Static("  authors: (")>>
        \o JoinLines([k \in 1..Len(authors) |-> AuthorLines(authors[k], k)], 1)
        \o <<Static("  ),"), Static("  affiliations: (")>>
        \o JoinLines([k \in 1..Len(affiliations) |-> AffiliationLines(affiliations[k], k)], 1)
        \o <<Static("  ),"), Static("")>>

BuildAuthorNotesSection(author_notes, authors) ==
    LET OrcidLines(author, k) ==
            IF author.name # Empty /\ author.orcid # Empty
            THEN <<Line("include-orcid name", EscapeTypst(author.name)),
                   Line("include-orcid id", author.orcid), Static("")>>
            ELSE <<>>
    IN  <<Static("  author-notes: [")>>
        \o JoinLines([k \in 1..Len(authors) |-> OrcidLines(authors[k], k)], 1)
        \o (IF author_notes # Empty
            THEN <<Line("author notes", EscapeTypst(author_notes))>>
            ELSE <<>>)
        \o <<Static("  ],")>>

\* str.split(","): the pieces between the commas.
RECURSIVE Split(_, _)
Split(text, piece) ==
    IF text = <<>> THEN <<piece>>
    ELSE IF Head(text) = "," THEN <<piece>> \o Split(Tail(text), <<>>)
    ELSE Split(Tail(text), Append(piece, Head(text)))

\* str.strip() for blanks and line ends.
RECURSIVE Strip(_)
Strip(text) ==
    IF text = <<>> THEN <<>>
    ELSE IF Head(text) \in {" ", "\n"} THEN Strip(Tail(text))
    ELSE IF text[Len(text)] \in {" ", "\n"}
    THEN Strip(SubSeq(text, 1, Len(text) - 1))
    ELSE text

RECURSIVE KeywordList(_)
KeywordList(pieces) ==
    IF pieces = <<>> THEN <<>>
    ELSE (IF Strip(Head(pieces)) # <<>>
          THEN <<EscapeTypst(Strip(Head(pieces)))>> ELSE <<>>)
             \o KeywordList(Tail(pieces))

BuildKeywordsList(keywords) ==
    IF keywords = Empty THEN <<"(", ")">>
    ELSE LET keyword_list == KeywordList(Split(keywords, <<>>))
         IN  IF keyword_list = <<>> THEN <<"(", ")">>
             ELSE <<"(">> \o JoinComma(keyword_list) \o <<")">>

\* Faulty variant: an include line for every section that has an id.
IncludeLinesAnyLevel(sections) ==
    LET Include(section, k) ==
            IF section.id # ""
            THEN <<Line("include", <<"sections/", section.id, ".typ">>)>>
            ELSE <<>>
    IN  JoinLines([k \in 1..Len(sections) |-> Include(sections[k], k)], 1)

\* apa7_form_handler.py:364-370: the include lines.
IncludeLines(sections) ==
    LET Include(section, k) ==
            IF section.id # "" /\ section.level = 1
            THEN <<Line("include", <<"sections/", section.id, ".typ">>)>>
            ELSE <<>>
    IN  JoinLines([k \in 1..Len(sections) |-> Include(sections[k], k)], 1)

\* Faulty variant: the block is written whenever there are authors.
AuthorsBlockPresentIfAuthors(authors, affiliations) == authors # <<>>

\* apa7_form_handler.py:301: the authors and affiliations block is written
\* when both lists have entries.
AuthorsBlockPresent(authors, affiliations) ==
    authors # <<>> /\ affiliations # <<>>

BuildMainTypContent(form, sections) ==
    <<Static("#import \"@preview/versatile-apa:7.1.5\": *"), Static(""),
      Static("// Document titles should be formatted in title case"),
      Line("doc-title", EscapeTypst(form.title)), Static(""),
      Static("#show: versatile-apa.with("), Static("  title: doc-title,"),
      Static("")>>
    \o (IF AuthorsBlockPresent(form.authors, form.affiliations)
        THEN BuildAuthorsSection(form.authors, form.affiliations)
        ELSE <<>>)
    \o (IF form.course # Empty \/ form.instructor # Empty
           \/ form.due_date # Empty
        THEN <<Static("  // Student-specific fields")>>
             \o (IF form.course # Empty
                 THEN <<Line("course", EscapeTypst(form.course))>>
                 ELSE <<>>)
             \o (IF form.instructor # Empty
                 THEN <<Line("instructor", EscapeTypst(form.instructor))>>
                 ELSE <<>>)
             \o (IF form.due_date # Empty
                 THEN <<Line("due-date", EscapeTypst(form.due_date))>>
                 ELSE <<Static("  due-date: datetime.today().display(),")>>)
             \o <<Static("")>>
        ELSE <<>>)
    \o (IF form.running_head # Empty \/ form.author_notes # Empty
        THEN <<Static("  // Professional-specific fields")>>
             \o (IF form.running_head # Empty
                 THEN <<Line("running-head",
                             EscapeTypst(form.running_head))>>
                 ELSE <<>>)
             \o (IF form.author_notes # Empty
                 THEN BuildAuthorNotesSection(form.author_notes,
                                              form.authors)
                 ELSE <<>>)
             \o <<Static("")>>
        ELSE <<>>)
    \o (IF form.abstract # Empty \/ form.keywords # Empty
        THEN (IF form.abstract # Empty
              THEN <<Line("abstract", EscapeTypst(form.abstract))>>
              ELSE <<>>)
             \o (IF form.keywords # Empty
                 THEN <<Line("keywords", BuildKeywordsList(form.keywords))>>
                 ELSE <<>>)
             \o <<Static("")>>
        ELSE <<>>)
    \o <<Static("  // Common fields"),
         Line("font-family", form.font_family),
         Line("font-size", form.font_size),
         Line("region", form.region),
         Line("language", form.language),
         Line("paper-size", form.paper_size),
         Static("  implicit-introduction-heading: false,"),
         Line("abstract-as-description",
              IF form.abstract_as_desc THEN <<"true">> ELSE <<"false">>),
         Static(")"), Static(""),
         Static("// Document outlines"), Static("#outline()"),
         Static("#pagebreak()"),
         Static("#outline(target: figure.where(kind: table), title: [Tables])"),
         Static("#pagebreak()"),
         Static("#outline(target: figure.where(kind: image), title: [Figures])"),
         Static("#pagebreak()"),
         Static("#outline(target: figure.where(kind: math.equation), title: [Equations])"),
         Static("#pagebreak()"),
         Static("#outline(target: figure.where(kind: raw), title: [Listings])"),
         Static("#pagebreak()"), Static(""),
         Static("// Main document content")>>
    \o IncludeLines(sections)
    \o <<Static(""), Static("#pagebreak()"), Static("#bibliography("),
         Static("  \"bibliography/ref.bib\","),
         Static("  style: \"csl/apa.csl\","), Static("  full: true,"),
         Static("  title: auto,"), Static(")")>>

(***************************************************************************)
(* The files of the project and the handlers of Apa7FormHandler.           *)
(***************************************************************************)
\* The files sections/<id>.typ, main.typ and form_data.json.
FileIds == (SectionIds \cup {SubsectionId}) \ {""}

NoSectionFile == [exists |-> FALSE, content |-> FileContent(<<>>)]
SectionFile(content) == [exists |-> TRUE, content |-> content]

NoRootFile == [exists |-> FALSE, content |-> <<>>]
RootFile(content) == [exists |-> TRUE, content |-> content]

NoSnapshot == [exists |-> FALSE, form |-> BlankForm, sections |-> <<>>]
Snapshot(form, sections) ==
    [exists |-> TRUE, form |-> form, sections |-> sections]

\* Signals of Apa7FormHandler (apa7_form_handler.py:27-30).
fileGenerated(path) == [name |-> "fileGenerated", text |-> path]
fileGenerationFailed(error_msg) ==
    [name |-> "fileGenerationFailed", text |-> error_msg]

\* What the generator was asked last:
\*   op       : the slot, or "" when the document has changed since
\*   outcome  : "generated", "not_configured", "write_failed" or ""
\*   again    : a successful generation that followed a successful one with
\*              no edit between
\*   written  : the ids of the section files written, in order
\*   root     : whether main.typ was written
\*   failed   : the step that raised OSError: "mkdir", "section", "root" or
\*              "snapshot"; "" when none did
\*   signals  : the signals emitted, in order
Generation(outcome, again, written, root, failed, signals) ==
    [op |-> "generate_main_typ", outcome |-> outcome, again |-> again,
     written |-> written, root |-> root, failed |-> failed,
     signals |-> signals]

NoGeneration ==
    [op |-> "", outcome |-> "", again |-> FALSE, written |-> <<>>,
     root |-> FALSE, failed |-> "", signals |-> <<>>]

\* Faulty variant: a failed write is reported, and then success as well.
ResultSignalsSuccessToo(outcome) ==
    IF outcome = "generated" THEN <<fileGenerated("main.typ")>>
    ELSE IF outcome = "not_configured"
    THEN <<fileGenerationFailed(
             "Project path not set. Cannot generate main.typ.")>>
    ELSE <<fileGenerationFailed("Failed to write main.typ"),
           fileGenerated("main.typ")>>

\* apa7_form_handler.py:117, 245, 250: the signal that ends a generation.
ResultSignals(outcome) ==
    IF outcome = "generated" THEN <<fileGenerated("main.typ")>>
    ELSE IF outcome = "not_configured"
    THEN <<fileGenerationFailed(
             "Project path not set. Cannot generate main.typ.")>>
    ELSE <<fileGenerationFailed("Failed to write main.typ")>>

\* Faulty variant: the file of the final run is not written.
RECURSIVE ApplyWritesButFinal(_, _, _)
ApplyWritesButFinal(files, writes, count) ==
    IF count = 0 THEN files
    ELSE IF count = Len(writes)
    THEN ApplyWritesButFinal(files, writes, count - 1)
    ELSE [ApplyWritesButFinal(files, writes, count - 1) EXCEPT
              ![writes[count].id] = SectionFile(writes[count].content)]

\* The section files after the first count writes of a generation.
RECURSIVE ApplyWrites(_, _, _)
ApplyWrites(files, writes, count) ==
    IF count = 0 THEN files
    ELSE [ApplyWrites(files, writes, count - 1) EXCEPT
              ![writes[count].id] = SectionFile(writes[count].content)]

\* Faulty variant: the loop stores the escaped title back into the section.
ReadUpToTitleEscaped(sections, read, at) ==
    [i \in 1..Len(sections) |->
        IF i <= at THEN [read[i] EXCEPT !.title = EscapeTypst(@)]
        ELSE sections[i]]

\* The sections when the loop stops after reading section number at.
ReadUpTo(sections, read, at) ==
    [i \in 1..Len(sections) |-> IF i <= at THEN read[i] ELSE sections[i]]

\* Apa7FormHandler.__init__, and a project without generated files.
GeneratorInit ==
    /\ genProjectSet = FALSE
    /\ formData \in Forms
    /\ document = <<>>
    /\ sectionsDir = FALSE
    /\ sectionFiles = [id \in FileIds |-> NoSectionFile]
    /\ rootFile = NoRootFile
    /\ snapshot = NoSnapshot
    /\ genCall = NoGeneration
    /\ uuidsDrawn = 0

\* set_project_path
GeneratorSetProjectPath ==
    /\ genProjectSet' = TRUE
    /\ UNCHANGED <<notGenVars, formData, document, sectionsDir, sectionFiles,
                   rootFile, snapshot, genCall, uuidsDrawn>>

\* The editing session adds a section to the document.
AppendSection ==
    \E section \in NewSections :
        /\ Len(document) < MaxSections
        /\ document' = Append(document, section)
        /\ genCall' = NoGeneration
        /\ UNCHANGED <<notGenVars, genProjectSet, formData, sectionsDir,
                       sectionFiles, rootFile, snapshot, uuidsDrawn>>

\* The writes of a generation are numbered: 0 is the mkdir of the sections
\* directory, 1..n are the section files, n + 1 is main.typ and n + 2 is
\* form_data.json; failAt is the write that raises OSError, n + 3 when none
\* does.
FailedStep(failAt, n) ==
    IF failAt = 0 THEN "mkdir"
    ELSE IF failAt <= n THEN "section"
    ELSE IF failAt = n + 1 THEN "root"
    ELSE IF failAt = n + 2 THEN "snapshot"
    ELSE ""

\* Faulty variant: generation goes on without a project path.
ConfiguredAlways(projectSet) == TRUE

\* apa7_form_handler.py:114: self.project_path is set.
Configured(projectSet) == projectSet

\* Faulty variant: main.typ is written before the section files.
RootWrittenFirst(failed) == failed # "mkdir"

\* apa7_form_handler.py:214 is reached, and writes, when neither the mkdir
\* nor a section write nor the write of main.typ itself has failed.
RootWritten(failed) == failed \in {"snapshot", ""}

\* Faulty variant: a failed write of form_data.json fails the generation.
ReportedSnapshotFatal(failed) ==
    IF failed = "" THEN "generated" ELSE "write_failed"

\* apa7_form_handler.py:239-250: the OSError of the snapshot write is caught
\* where it is raised, any other one ends the generation.
Reported(failed) ==
    IF failed \in {"snapshot", ""} THEN "generated" ELSE "write_failed"

\* generate_main_typ
GenerateMainTyp ==
    LET again == genCall.op = "generate_main_typ"
                     /\ genCall.outcome = "generated"
    IN  IF ~Configured(genProjectSet)
        THEN /\ genCall' = Generation("not_configured", FALSE, <<>>, FALSE,
                    "", ResultSignals("not_configured"))
             /\ UNCHANGED <<notGenVars, genProjectSet, formData, document,
                            sectionsDir, sectionFiles, rootFile, snapshot,
                            uuidsDrawn>>
        ELSE \E loop \in {WriteSections(document, uuidsDrawn)} :
             \E failAt \in 0..(Len(loop.writes) + 3) :
               LET n == Len(loop.writes)
                   failed == FailedStep(failAt, n)
                   done == IF failAt > n THEN n
                           ELSE IF failAt = 0 THEN 0 ELSE failAt - 1
                   read == IF failAt = 0 THEN 0
                           ELSE IF failAt > n THEN Len(document)
                           ELSE loop.writes[failAt].at
               IN  /\ sectionsDir' = (sectionsDir \/ failed # "mkdir")
                   /\ document' = ReadUpTo(document, loop.sections, read)
                   /\ uuidsDrawn' = IF failAt = 0 THEN uuidsDrawn
                                    ELSE IF failAt > n THEN loop.drawn
                                    ELSE loop.writes[failAt].drawn
                   /\ sectionFiles' =
                          ApplyWrites(sectionFiles, loop.writes, done)
                   /\ rootFile' =
                          IF RootWritten(failed)
                          THEN RootFile(BuildMainTypContent(formData,
                                                            loop.sections))
                          ELSE rootFile
                   /\ snapshot' =
                          IF failed = ""
                          THEN Snapshot(formData, loop.sections)
                          ELSE snapshot
                   /\ genCall' =
                          Generation(Reported(failed),
                              again /\ Reported(failed) = "generated",
                              [k \in 1..done |-> loop.writes[k].id],
                              RootWritten(failed), failed,
                              ResultSignals(Reported(failed)))
                   /\ UNCHANGED <<notGenVars, genProjectSet, formData>>

(***************************************************************************)
(* The output streams of the watch subprocess: _handle_stdout and          *)
(* _handle_stderr of ProcessManager, connected to readyReadStandardOutput  *)
(* and readyReadStandardError of self.process.                             *)
(***************************************************************************)
\* What readAllStandardOutput() / readAllStandardError() may give: nothing,
\* a blank line, the status lines of typst watch, an error, a status line
\* after blanks, and a status line with an error after it.
StreamChunks ==
    LET watching == <<"w", "a", "t", "c", "h", "i", "n", "g", " ", "m">>
        writing == <<"w", "r", "i", "t", "i", "n", "g", " ", "t", "o", " ",
                     "p">>
        failure == <<"e", "r", "r", "o", "r", ":", " ", "x">>
    IN  {<<>>, <<" ", "\n">>, watching \o <<"\n">>, writing \o <<"\n">>,
         failure \o <<"\n">>, <<" ">> \o watching,
         watching \o <<"\n">> \o failure \o <<"\n">>}

\* str.startswith
StartsWith(text, prefix) ==
    /\ Len(text) >= Len(prefix)
    /\ SubSeq(text, 1, Len(prefix)) = prefix

\* _handle_stdout: a chunk that is not blank is emitted as it was read.
HandleStdout ==
    \E output \in StreamChunks :
        /\ procState = "Running"
        /\ lastCall' =
               Call("handle_stdout",
                    IF Strip(output) # <<>> THEN "printed" ELSE "blank",
                    0, 0, "none", "none", 0, 0,
                    Info(0, "none", FALSE, FALSE, output),
                    IF Strip(output) # <<>>
                    THEN <<Sig("processOutput", TRUE, "", output)>>
                    ELSE <<>>)
        /\ UNCHANGED <<notSupVars, projectPath, procState, workDir, alive,
                       osName, machine, exeIsFile, sourcePdf, jobs>>

\* _handle_stderr: a chunk that is not blank is emitted as it was read; it
\* is printed unless its text starts as a status line of typst watch.
HandleStderr ==
    \E error \in StreamChunks :
        LET error_text == Strip(error)
        IN  /\ procState = "Running"
            /\ lastCall' =
                   Call("handle_stderr",
                        IF error_text = <<>> THEN "blank"
                        ELSE IF /\ ~StartsWith(error_text,
                                      <<"w", "a", "t", "c", "h", "i", "n",
                                        "g", " ">>)
                                /\ ~StartsWith(error_text,
                                      <<"w", "r", "i", "t", "i", "n", "g",
                                        " ", "t", "o", " ">>)
                        THEN "printed" ELSE "not_printed",
                        0, 0, "none", "none", 0, 0,
                        Info(0, "none", FALSE, FALSE, error),
                        IF error_text # <<>>
                        THEN <<processError(error)>> ELSE <<>>)
            /\ UNCHANGED <<notSupVars, projectPath, procState, workDir,
                           alive, osName, machine, exeIsFile, sourcePdf,
                           jobs>>

(***************************************************************************)
(* The specifications.                                                     *)
(***************************************************************************)
\* The supervisor, beside a tracker that is constructed and left alone.
Init ==
    /\ ProcessManagerInit
    /\ OutputMonitorInit
    /\ EnvironmentInit
    /\ sortCall = NotSorted
    /\ GeneratorInit
    /\ formData = BlankForm

Next ==
    \/ SetProjectPath
    \/ StartTypstWatch
    \/ WatchStarted
    \/ WatchFailedToStart
    \/ WatchExited
    \/ StopProcess
    \/ ExportPdf
    \/ ExportStarted
    \/ ExportFailedToStart
    \/ ExportFinished
    \/ BinaryChange

Spec == Init /\ [][Next]_vars

\* A compile subprocess that has started ends by itself, and the event loop
\* then delivers its finished signal.
FairSpec == Spec /\ WF_vars(ExportFinished)

\* The watch subprocess and its output streams, without exports.
StreamNext ==
    \/ SetProjectPath
    \/ StartTypstWatch
    \/ WatchStarted
    \/ WatchFailedToStart
    \/ WatchExited
    \/ StopProcess
    \/ HandleStdout
    \/ HandleStderr

StreamSpec == Init /\ [][StreamNext]_vars

\* The tracker and its directory, beside a supervisor that is left alone.
MonitorInit ==
    /\ ProcessManagerInit
    /\ osName = "linux"
    /\ exeIsFile
    /\ OutputMonitorInit
    /\ EnvironmentInit
    /\ sortCall = NotSorted
    /\ GeneratorInit
    /\ formData = BlankForm

MonitorNext ==
    \/ MonitorSetProjectPath
    \/ StopMonitoring
    \/ GetOutputFiles
    \/ OnDirectoryChanged
    \/ OnFileChanged
    \/ CheckForChanges
    \/ AddFile
    \/ ModifyFile
    \/ RemoveFile
    \/ Tick

MonitorSpec == MonitorInit /\ [][MonitorNext]_vars

\* The sorting routine, beside a supervisor and a tracker that are left alone.
SortingInit ==
    /\ ProcessManagerInit
    /\ osName = "linux"
    /\ exeIsFile
    /\ OutputMonitorInit
    /\ EnvironmentInit
    /\ SortInit
    /\ GeneratorInit
    /\ formData = BlankForm

SortingNext == SortListing

SortingSpec == SortingInit /\ [][SortingNext]_vars

\* The generator, its document and its files, beside a supervisor and a
\* tracker that are left alone.
GenerationInit ==
    /\ ProcessManagerInit
    /\ osName = "linux"
    /\ exeIsFile
    /\ OutputMonitorInit
    /\ EnvironmentInit
    /\ sortCall = NotSorted
    /\ GeneratorInit

GenerationNext ==
    \/ GeneratorSetProjectPath
    \/ AppendSection
    \/ GenerateMainTyp

GenerationSpec == GenerationInit /\ [][GenerationNext]_vars

\* The generator with a form of EmissionForms and a document without
\* sections.
EmissionInit ==
    /\ ProcessManagerInit
    /\ osName = "linux"
    /\ exeIsFile
    /\ OutputMonitorInit
    /\ EnvironmentInit
    /\ sortCall = NotSorted
    /\ genProjectSet = FALSE
    /\ formData \in EmissionForms
    /\ document = <<>>
    /\ sectionsDir = FALSE
    /\ sectionFiles = [id \in FileIds |-> NoSectionFile]
    /\ rootFile = NoRootFile
    /\ snapshot = NoSnapshot
    /\ genCall = NoGeneration
    /\ uuidsDrawn = 0

EmissionNext ==
    \/ GeneratorSetProjectPath
    \/ GenerateMainTyp

EmissionSpec == EmissionInit /\ [][EmissionNext]_vars

(***************************************************************************)
(* Properties of the supervisor.                                           *)
(***************************************************************************)
WatchVars == <<projectPath, procState, workDir, alive>>
HostVars == <<osName, machine, exeIsFile>>
ExportVars == <<jobs, sourcePdf>>

ExportOps ==
    {"export", "export_started", "export_failed_to_start", "export_finished"}
WatchOps ==
    {"start", "stop", "watch_started", "watch_failed_to_start", "watch_exited"}

Count(sigs, name) == Cardinality({i \in DOMAIN sigs : sigs[i].sig = name})

\* C1: a start request made while the watch process is Starting or Running
\* spawns nothing and changes nothing (it only prints the warning), and at
\* most one watch subprocess is alive in every reachable state.
C1_StartWhileActiveIsNoOp ==
    /\ [](alive <= 1)
    /\ [][(lastCall'.op = "start" /\ procState # "NotRunning")
            => /\ lastCall'.outcome = "already_running"
               /\ lastCall'.spawn = "none"
               /\ UNCHANGED <<WatchVars, HostVars, ExportVars>>]_vars

C1_Witness ==
    /\ lastCall.op = "start"
    /\ lastCall.outcome = "already_running"
    /\ procState = "Running"
    /\ alive = 1
    /\ workDir # projectPath

\* C2: a stop request that acts calls kill() exactly once when the subprocess
\* did not end within waitForFinished(2000), and never when it did.
C2_KillIffGraceExpired ==
    (lastCall.op = "stop" /\ lastCall.term = 1)
        => /\ lastCall.waited \in {"exited", "not_exited"}
           /\ lastCall.waited = "exited" => lastCall.kill = 0
           /\ lastCall.waited = "not_exited" => lastCall.kill = 1

C2_Witness ==
    /\ lastCall.op = "stop"
    /\ lastCall.waited = "not_exited"
    /\ lastCall.kill = 1
    /\ lastCall.exits = 1
    /\ procState = "NotRunning"

\* C3: a stop request made while the watch process is Stopped calls neither
\* terminate() nor kill(), emits no signal and leaves the state as it was.
C3_StopWhileStoppedIsNoOp ==
    [][(lastCall'.op = "stop" /\ procState = "NotRunning")
         => /\ lastCall'.term = 0
            /\ lastCall'.kill = 0
            /\ lastCall'.signals = <<>>
            /\ UNCHANGED <<WatchVars, HostVars, ExportVars>>]_vars

C3_Witness ==
    /\ lastCall.op = "stop"
    /\ lastCall.outcome = "not_running"
    /\ procState = "NotRunning"
    /\ workDir # None
    /\ \E j \in JobIds : jobs[j].st = "running"

\* C4: every exit of the watch subprocess, with any exit code and either exit
\* status, ends in state NotRunning with exactly one processStopped emitted;
\* processStopped is emitted for nothing else.
C4_ExitEmitsOneStopped ==
    /\ Count(lastCall.signals, "processStopped") = lastCall.exits
    /\ lastCall.exits > 0 => procState = "NotRunning"

C4_Witness ==
    /\ lastCall.op = "watch_exited"
    /\ lastCall.info.status = "CrashExit"
    /\ lastCall.info.code = 1
    /\ Count(lastCall.signals, "processStopped") = 1
    /\ Count(lastCall.signals, "processError") = 1

\* C5 as stated: an export reports success iff its subprocess ended normally
\* with status zero and output/main.pdf exists after the exit.
C5_SuccessIffExitZeroAndFile ==
    lastCall.op = "export_finished"
        => (lastCall.signals[1].ok
              <=> /\ lastCall.info.status = "NormalExit"
                  /\ lastCall.info.code = 0
                  /\ lastCall.info.exists)

\* C5 amended: an export reports success iff its subprocess ended normally
\* with status zero, output/main.pdf exists after the exit and moving it to
\* the destination succeeds; every other combination reports failure.
C5_SuccessIffExitZeroFileAndMove ==
    lastCall.op = "export_finished"
        => /\ Len(lastCall.signals) = 1
           /\ lastCall.signals[1].sig = "pdfExportFinished"
           /\ lastCall.signals[1].ok
                <=> /\ lastCall.info.status = "NormalExit"
                    /\ lastCall.info.code = 0
                    /\ lastCall.info.exists
                    /\ lastCall.info.moveOk

C5_Witness ==
    /\ lastCall.op = "export_finished"
    /\ lastCall.info.status = "NormalExit"
    /\ lastCall.info.code = 0
    /\ lastCall.info.exists
    /\ ~lastCall.info.moveOk
    /\ ~lastCall.signals[1].ok

\* C6: for an export whose subprocess started, on_finished runs exactly once:
\* before it no result is emitted and the QProcess is held, it emits exactly
\* one pdfExportFinished and releases the QProcess whatever the result, a
\* started export leaves the running state only that way, and no started
\* export stays running for ever.
JobHandledOnce(j) ==
    /\ jobs[j].st \in {"unused", "starting", "running", "failed_to_start"}
         => jobs[j].handled = 0 /\ ~jobs[j].released
    /\ jobs[j].st = "done" => jobs[j].handled = 1 /\ jobs[j].released

C6_ExportHandledExactlyOnce ==
    /\ [](\A j \in JobIds : JobHandledOnce(j))
    /\ [](lastCall.op = "export_finished"
            => /\ Count(lastCall.signals, "pdfExportFinished") = 1
               /\ jobs[lastCall.job].st = "done")
    /\ [][\A j \in JobIds :
            /\ jobs[j].st = "done" => jobs'[j] = jobs[j]
            /\ jobs[j].st = "running" => jobs'[j].st \in {"running", "done"}]_vars
    /\ []<>(\A j \in JobIds : jobs[j].st # "running")

C6_Witness ==
    /\ lastCall.op = "export_finished"
    /\ ~lastCall.signals[1].ok
    /\ jobs[lastCall.job].released
    /\ jobs[lastCall.job].handled = 1

\* C7: a non-zero exit or an abnormal end reports "process failed" with the
\* captured error stream, a zero exit without output/main.pdf reports
\* "artifact missing", and each of the two results is reported for nothing
\* else.
C7_FailureKindsDistinct ==
    lastCall.op = "export_finished" =>
        LET r == lastCall.signals[1]
            i == lastCall.info
            failed == i.status # "NormalExit" \/ i.code # 0
            missing == i.status = "NormalExit" /\ i.code = 0 /\ ~i.exists
        IN  /\ failed <=> r.kind = "process_failed"
            /\ failed => ~r.ok /\ r.text = i.stderr
            /\ missing <=> r.kind = "artifact_missing"
            /\ missing => ~r.ok

C7_Witness ==
    /\ lastCall.op = "export_finished"
    /\ lastCall.info.status = "CrashExit"
    /\ lastCall.info.code = 0
    /\ lastCall.info.stderr # ""
    /\ lastCall.signals[1].kind = "process_failed"

\* C8: a step of an export job changes neither the watch process nor any
\* other export job and signals nothing to the watch process; a start, stop,
\* start-up or exit of the watch process changes no export job.
C8_ExportAndWatchIndependent ==
    [][/\ lastCall'.op \in ExportOps
            => /\ UNCHANGED WatchVars
               /\ lastCall'.term = 0 /\ lastCall'.kill = 0
               /\ lastCall'.exits = 0
               /\ \A i \in DOMAIN lastCall'.signals :
                      lastCall'.signals[i].sig = "pdfExportFinished"
               /\ \A k \in JobIds \ {lastCall'.job} : jobs'[k] = jobs[k]
       /\ lastCall'.op \in WatchOps
            => /\ UNCHANGED ExportVars
               /\ Count(lastCall'.signals, "pdfExportFinished") = 0]_vars

C8_Witness ==
    /\ lastCall.op = "stop"
    /\ lastCall.exits = 1
    /\ jobs[1].st = "running"
    /\ jobs[2].st = "starting"

\* C9: while the platform is unsupported or the binary is absent, a watch
\* start request and an export request start no subprocess and leave the
\* watch state as it is (Stopped stays Stopped); the request ends with a
\* printed message or a failure result, never with an exception.
ResolutionFails == osName \notin {"linux", "win32"} \/ ~exeIsFile

C9_NoSpawnWithoutExecutable ==
    [][(lastCall'.op \in {"start", "export"} /\ ResolutionFails)
         => /\ lastCall'.spawn = "none"
            /\ UNCHANGED <<procState, alive, jobs>>
            /\ (lastCall'.op = "start"
                  /\ procState = "NotRunning" /\ projectPath # None)
                 => /\ lastCall'.outcome \in {"unsupported_os", "exe_not_found"}
                    /\ procState' = "NotRunning"
            /\ (lastCall'.op = "export" /\ projectPath # None)
                 => lastCall'.signals =
                        <<pdfExportFinished(FALSE, "exe_not_found", "")>>
            /\ lastCall'.outcome # "raised_mkdir"]_vars

C9_Witness ==
    /\ lastCall.op = "start"
    /\ lastCall.outcome = "exe_not_found"
    /\ projectPath # None
    /\ procState = "NotRunning"
    /\ alive = 0

\* C10: the watch process leaves NotRunning, and a watch subprocess is
\* spawned, only in a start_typst_watch step; in particular the step in which
\* the subprocess exits or crashes spawns nothing.
C10_NoAutomaticRestart ==
    /\ [](lastCall.exits > 0
            => procState = "NotRunning" /\ lastCall.spawn = "none")
    /\ [][(\/ procState = "NotRunning" /\ procState' # "NotRunning"
           \/ alive' > alive
           \/ lastCall'.spawn = "watch")
            => lastCall'.op = "start"]_vars

C10_Witness ==
    /\ lastCall.op = "watch_exited"
    /\ lastCall.info.status = "NormalExit"
    /\ procState = "NotRunning"
    /\ alive = 0
    /\ projectPath # None
    /\ ExecutablePath # NoPath

(***************************************************************************)
(* Properties of the tracker.                                              *)
(***************************************************************************)
\* A step in which _scan_and_emit runs.
ScanStep ==
    \/ MonitorSetProjectPath
    \/ OnDirectoryChanged
    \/ OnFileChanged
    \/ CheckForChanges /\ PollSeesChange(dirFiles, fileTimestamps)

\* The list of the filesChanged signal, and the index of the
\* activePageChanged signal (-1: not emitted), of a scan.
EmittedList(signals) == IF signals = <<>> THEN <<>> ELSE signals[1].urls

ActivePage(signals) == IF Len(signals) = 2 THEN signals[2].index ELSE -1

Paths(urls) == [i \in 1..Len(urls) |-> urls[i].path]

\* The token a list carries for a path; 0 when the path is not in the list.
TokenIn(urls, f) ==
    IF \E i \in 1..Len(urls) : urls[i].path = f
    THEN urls[CHOOSE i \in 1..Len(urls) : urls[i].path = f].t
    ELSE 0

\* stat works on the file and gives the mtime that file_timestamps records.
Unchanged(f) ==
    /\ dirFiles[f].statOk
    /\ fileTimestamps[f].seen
    /\ dirFiles[f].mtime = fileTimestamps[f].mtime

\* stat works on the file and gives another mtime than the recorded one.
Modified(f) ==
    /\ dirFiles[f].statOk
    /\ fileTimestamps[f].seen
    /\ dirFiles[f].mtime # fileTimestamps[f].mtime

\* A scan emits the recorded token for every file whose mtime is the
\* recorded one.
UnchangedKeepsToken ==
    [][ScanStep =>
        \A i \in 1..Len(EmittedList(lastScan')) :
            LET u == EmittedList(lastScan')[i]
            IN  Unchanged(u.path) => u.t = fileTimestamps[u.path].token]_vars

\* C11: in every scan a file whose path was seen and whose mtime is the
\* recorded one keeps its token, and a file whose mtime changed gets a token
\* that differs from its prior one.
C11_SelectiveInvalidation ==
    [][ScanStep =>
        \A i \in 1..Len(EmittedList(lastScan')) :
            LET u == EmittedList(lastScan')[i]
            IN  /\ Unchanged(u.path) => u.t = fileTimestamps[u.path].token
                /\ Modified(u.path) => u.t # fileTimestamps[u.path].token]_vars

\* The paths that get a token in a step.
Assigned == {f \in PageFiles : fileTimestamps'[f] # fileTimestamps[f]}

\* C12: a token that a scan assigns (to an unseen path or to a path whose
\* mtime changed) differs from every token assigned before, to any path.
C12_FreshTokenNeverUsedBefore ==
    [][ScanStep =>
        \A f \in Assigned : fileTimestamps'[f].token \notin issued]_vars

\* The positions of the new list whose token is not the one the previous
\* list carried for the same path.
TokenChangedAt(old, new) ==
    {i \in 1..Len(new) : new[i].t # TokenIn(old, new[i].path)}

\* The positions of a sorted list whose file gets a token in the scan.
ReassignedAt(files) ==
    {i \in 1..Len(files) :
        /\ dirFiles[files[i]].statOk
        /\ EntryChanged(fileTimestamps[files[i]], dirFiles[files[i]].mtime)}

Smallest(S) == CHOOSE i \in S : \A j \in S : i <= j

\* The index a scan has to report for a set of positions: the smallest,
\* counted from 0, and -1 for none.
FirstOf(S) == IF S = {} THEN -1 ELSE Smallest(S) - 1

\* C13 as stated: for a non-empty list the scan reports the smallest index
\* whose emitted token differs from the token emitted for that path by the
\* previous scan (or whose path is new), and none exactly when there is no
\* such index.
C13_IndexOfFirstChangedToken ==
    [][(ScanStep /\ PresentFiles # {}) =>
        ActivePage(lastScan') =
            FirstOf(TokenChangedAt(EmittedList(lastScan),
                                   EmittedList(lastScan')))]_vars

\* C13: for a non-empty list the scan reports the smallest index whose file
\* gets a token in this scan (its path has no entry in file_timestamps, or
\* stat gives another mtime than the recorded one), and none exactly when no
\* file gets a token.
C13_IndexOfFirstReassigned ==
    [][(ScanStep /\ PresentFiles # {}) =>
        ActivePage(lastScan') = FirstOf(ReassignedAt(Paths(EmittedList(lastScan'))))
    ]_vars

C13_Witness ==
    /\ ActivePage(lastScan) = 1
    /\ Len(EmittedList(lastScan)) = 2
    /\ EmittedList(lastScan)[1].t # EmittedList(lastScan)[2].t

\* C14: a scan of a directory without page files emits the empty list and
\* no page index; a scan that reports index 0 emits two signals.
C14_EmptyScanHasNoIndex ==
    [][ScanStep =>
        /\ PresentFiles = {} => lastScan' = <<filesChanged(<<>>)>>
        /\ ActivePage(lastScan') = 0 =>
              /\ Len(lastScan') = 2
              /\ lastScan'[2] = activePageChanged(0)
              /\ lastScan' # <<filesChanged(<<>>)>>]_vars

C14_Witness ==
    /\ lastScan = <<filesChanged(<<>>)>>
    /\ \E f \in PageFiles : fileTimestamps[f].seen

\* Two runs of _build_urls_with_cache_busting on the directory as it is:
\* the first at the current time, the second at time t2.
Rescan(listed1, listed2, t2) ==
    LET first == BuildUrlsWithCacheBusting(GetSortedSvgFiles(listed1),
                     dirFiles, fileTimestamps, now)
        second == BuildUrlsWithCacheBusting(GetSortedSvgFiles(listed2),
                     dirFiles, first.stamps, t2)
    IN  [first |-> first, second |-> second]

\* C15 as stated: a rescan with no change of the file system in between
\* emits the identical list with identical tokens and reports no page.
C15_RescanIdentical ==
    \A listed1, listed2 \in Enumerations(PresentFiles), t2 \in now..MaxTime :
        LET r == Rescan(listed1, listed2, t2)
        IN  /\ r.second.urls = r.first.urls
            /\ r.second.index = -1

\* C15: a rescan with no change of the file system in between emits the
\* same paths in the same order, with the identical token for every file on
\* which stat works and the time of the rescan for every other file, and
\* reports no page.
C15_RescanIdenticalWhereStatWorks ==
    \A listed1, listed2 \in Enumerations(PresentFiles), t2 \in now..MaxTime :
        LET r == Rescan(listed1, listed2, t2)
        IN  /\ Paths(r.second.urls) = Paths(r.first.urls)
            /\ \A i \in 1..Len(r.second.urls) :
                  IF dirFiles[r.second.urls[i].path].statOk
                  THEN r.second.urls[i] = r.first.urls[i]
                  ELSE r.second.urls[i].t = t2
            /\ r.second.index = -1
            /\ r.second.stamps = r.first.stamps

C15_Witness ==
    /\ Len(lastScan) = 1
    /\ Len(EmittedList(lastScan)) = 2
    /\ \A f \in PageFiles : Unchanged(f) /\ fileTimestamps[f].token < now

\* The last emitted list shows the directory: it holds the page files that
\* are there, and every file on which stat works with the token recorded
\* for its current mtime.
Reflected ==
    /\ Range(Paths(EmittedList(lastScan))) = PresentFiles
    /\ \A f \in PresentFiles :
          dirFiles[f].statOk =>
              /\ Unchanged(f)
              /\ TokenIn(EmittedList(lastScan), f) = fileTimestamps[f].token

\* C16: while monitoring is active, a timeout of the poll timer brings the
\* emitted list up to date with the directory, whatever was added, removed
\* or modified, without any event of the watcher: the list is up to date
\* whenever a timeout would not rescan, and after every timeout that does.
C16_PollReflectsEveryChange ==
    /\ [](pollActive /\ ~PollSeesChange(dirFiles, fileTimestamps)
            => Reflected)
    /\ [][CheckForChanges => Reflected']_vars

\* After a timeout of the poll timer no file that file_timestamps knows
\* shows another mtime than the recorded one.
PollReflectsModification ==
    [][CheckForChanges => \A f \in PresentFiles : ~Modified(f)']_vars

PageIndex(stem) ==
    CASE stem = P2 -> 2
      [] stem = P10 -> 10
      [] stem = P02 -> 2
      [] stem = PMinus1 -> -1
      [] stem = PX -> 0
      [] stem = PBare -> 0

\* C17: whatever the order of enumeration, the sorted list holds the listed
\* files, each once, ascending by page index, where a name without a
\* readable index counts as index 0; the routine fails on no name.
C17_SortedByPageIndex ==
    sortCall.done =>
        /\ Len(sortCall.sorted) = Len(sortCall.listed)
        /\ Range(sortCall.sorted) = Range(sortCall.listed)
        /\ \A i, j \in 1..Len(sortCall.sorted) :
              i < j => PageIndex(sortCall.sorted[i])
                           <= PageIndex(sortCall.sorted[j])

C17_Witness ==
    /\ sortCall.done
    /\ sortCall.listed = <<P10, PX, P2, PMinus1>>
    /\ sortCall.sorted = <<PMinus1, PX, P2, P10>>

(***************************************************************************)
(* Properties of the generator.                                            *)
(***************************************************************************)
\* A step of generate_main_typ that reports success.
SuccessfulGeneration ==
    /\ genCall'.op = "generate_main_typ"
    /\ genCall'.outcome = "generated"
    /\ GenerateMainTyp

\* The numbers of the top-level sections, and their ids.
TopLevel(sections) == {i \in 1..Len(sections) : sections[i].level = 1}

TopLevelIds(sections) == {sections[i].id : i \in TopLevel(sections)}

\* The top-level sections have ids, and no two have the same.
TopLevelIdsDistinct(sections) ==
    /\ "" \notin TopLevelIds(sections)
    /\ Cardinality(TopLevelIds(sections)) = Cardinality(TopLevel(sections))

\* C19, as stated: for any document with N top-level sections, a generation
\* that succeeds produces exactly N section files plus one root file.
C19_OneFilePerTopLevelSection ==
    [][SuccessfulGeneration =>
          /\ Cardinality(Range(genCall'.written))
                 = Cardinality(TopLevel(document'))
          /\ genCall'.root]_vars

\* C19, amended: a generation that succeeds writes one section file for
\* each distinct non-empty id of a top-level section, and no other, plus
\* the root file; these are N section files, each written once, when the N
\* top-level sections have non-empty ids that differ from each other.
C19_OneFilePerTopLevelId ==
    [][SuccessfulGeneration =>
          /\ Range(genCall'.written) = TopLevelIds(document') \ {""}
          /\ \A id \in Range(genCall'.written) : sectionFiles'[id].exists
          /\ genCall'.root
          /\ rootFile'.exists
          /\ TopLevelIdsDistinct(document') =>
                 /\ Len(genCall'.written) = Cardinality(TopLevel(document'))
                 /\ Cardinality(Range(genCall'.written))
                        = Cardinality(TopLevel(document'))]_vars

\* A generation has succeeded for a document of two top-level sections with
\* different ids, and has written two section files and the root file.
C19_Witness ==
    /\ genCall.outcome = "generated"
    /\ Cardinality(TopLevel(document)) = 2
    /\ TopLevelIdsDistinct(document)
    /\ Cardinality(Range(genCall.written)) = 2
    /\ genCall.root

\* C20: a generation that succeeds right after a generation that succeeded,
\* with no change of the document between the two, leaves every section
\* file and the root file as they were, and the document too.
C20_RegenerationIdentical ==
    [][(SuccessfulGeneration /\ genCall'.again) =>
          /\ sectionFiles' = sectionFiles
          /\ rootFile' = rootFile
          /\ document' = document]_vars

\* A second generation has succeeded for a document with an image block in
\* a section that has a file.
C20_Witness ==
    /\ genCall.outcome = "generated"
    /\ genCall.again
    /\ \E i \in TopLevel(document) :
           /\ document[i].id \in Range(genCall.written)
           /\ document[i].blocks[1].type = "image"
           /\ document[i].blocks[1].label # Empty

\* A generation has just ended with success: the document is as it left it.
JustGenerated ==
    genCall.op = "generate_main_typ" /\ genCall.outcome = "generated"

\* The number of the top-level section that leads the run of section i, 0
\* when no top-level section precedes it.
Leader(sections, i) ==
    LET before == {j \in TopLevel(sections) : j <= i}
    IN  IF before = {} THEN 0
        ELSE CHOOSE j \in before : \A m \in before : m <= j

\* Section i is in a run that has a file of its own after a generation: its
\* leader has an id, and no later top-level section has the same id.
HasRunFile(sections, i) ==
    LET j == Leader(sections, i)
    IN  /\ j > 0
        /\ sections[j].id # ""
        /\ \A m \in TopLevel(sections) :
               sections[m].id = sections[j].id => m <= j

\* The image blocks of a document, as pairs of section and block number.
ImageBlocks(sections) ==
    UNION {{<<i, b>> : b \in {c \in 1..Len(sections[i].blocks) :
                                    sections[i].blocks[c].type = "image"}} :
           i \in 1..Len(sections)}

LabelAt(sections, p) == sections[p[1]].blocks[p[2]].label

\* The label of the figure emitted for image block p into the file of its
\* run.
EmittedLabel(sections, files, p) ==
    LET j == Leader(sections, p[1])
    IN  files[sections[j].id].content.contents[p[1] - j + 1].body[p[2]].label

\* C21: no step changes a label that an image block has; after a
\* generation that succeeds every image block has a label, a generated one
\* where it had none, and the figure emitted for it carries that label.
C21_LabelAssignedOnceAndKept ==
    /\ [](JustGenerated =>
            \A p \in ImageBlocks(document) :
                /\ LabelAt(document, p) # Empty
                /\ HasRunFile(document, p[1]) =>
                       EmittedLabel(document, sectionFiles, p)
                           = LabelAt(document, p))
    /\ [][\A p \in ImageBlocks(document) :
              LabelAt(document, p) # Empty =>
                  LabelAt(document', p) = LabelAt(document, p)]_vars

\* A second generation in a row has succeeded, and the file of a run shows
\* the label that the first one generated for an image block.
C21_Witness ==
    /\ JustGenerated
    /\ genCall.again
    /\ uuidsDrawn = 1
    /\ \E p \in ImageBlocks(document) :
           /\ HasRunFile(document, p[1])
           /\ LabelAt(document, p) = <<"img:">> \o Uuid(1)
           /\ EmittedLabel(document, sectionFiles, p) = <<"img:">> \o Uuid(1)

\* The failure signal of a generation, whatever its message.
OneFailureSignal(signals) ==
    Len(signals) = 1 /\ signals[1].name = "fileGenerationFailed"

NothingWritten ==
    /\ ~sectionsDir
    /\ \A id \in FileIds : ~sectionFiles[id].exists
    /\ ~rootFile.exists
    /\ ~snapshot.exists

\* C26: as long as no project path is set, a generation request emits the
\* failure signal alone, and neither the sections directory nor any file
\* has been created.
C26_NotConfiguredWritesNothing ==
    ~genProjectSet =>
        /\ NothingWritten
        /\ genCall.op = "generate_main_typ" =>
               /\ genCall.outcome = "not_configured"
               /\ OneFailureSignal(genCall.signals)
               /\ genCall.written = <<>>
               /\ ~genCall.root

\* A generation was asked for a document with a section while no project
\* path was set.
C26_Witness ==
    /\ ~genProjectSet
    /\ genCall.outcome = "not_configured"
    /\ document # <<>>
    /\ NothingWritten

\* The sections of the run led by top-level section j, and the file that a
\* generation writes for it.
RunMembers(sections, j) ==
    {i \in j..Len(sections) : Leader(sections, i) = j}

ExpectedFile(sections, j) ==
    SectionFile(FileContent(
        [k \in 1..Cardinality(RunMembers(sections, j)) |->
            FullContent(sections[j + k - 1],
                        SecContent(sections[j + k - 1], 0).parts)]))

\* The top-level sections that have an id, in document order: the leaders
\* of the runs that a generation writes, in the order of the writes.
RECURSIVE WrittenLeaders(_, _)
WrittenLeaders(sections, from) ==
    IF from > Len(sections) THEN <<>>
    ELSE (IF sections[from].level = 1 /\ sections[from].id # ""
          THEN <<from>> ELSE <<>>)
             \o WrittenLeaders(sections, from + 1)

\* The first count writes of a generation are in the section files: write
\* k has the id of leader k, and the file of that id holds the run of the
\* last of these leaders that has the id.
WritesKept(sections, files, written) ==
    LET leaders == WrittenLeaders(sections, 1)
    IN  /\ Len(written) <= Len(leaders)
        /\ \A k \in 1..Len(written) :
               /\ written[k] = sections[leaders[k]].id
               /\ (\A m \in (k + 1)..Len(written) :
                       written[m] # written[k])
                   => files[written[k]] = ExpectedFile(sections, leaders[k])

\* A step of generate_main_typ in which the mkdir or the write of a section
\* file raises OSError.
SectionWriteFails ==
    /\ genCall'.op = "generate_main_typ"
    /\ genCall'.failed \in {"mkdir", "section"}
    /\ GenerateMainTyp

\* C27: a generation writes main.typ only when it has written every
\* section file; when the sections directory cannot be made or the write of
\* a section file fails, the generation emits the failure signal alone,
\* main.typ stays as it was, and the section files written before the
\* failure stay written.
C27_RootWrittenLast ==
    /\ [](genCall.op = "generate_main_typ" /\ genCall.root =>
            Len(genCall.written) = Len(WrittenLeaders(document, 1)))
    /\ [][SectionWriteFails =>
              /\ genCall'.outcome = "write_failed"
              /\ OneFailureSignal(genCall'.signals)
              /\ rootFile' = rootFile
              /\ WritesKept(document', sectionFiles', genCall'.written)
              /\ genCall'.failed = "section" =>
                     Len(genCall'.written)
                         < Len(WrittenLeaders(document', 1))]_vars

\* The second section write of a generation has failed after the first one
\* succeeded, while main.typ exists from an earlier generation.
C27_Witness ==
    /\ genCall.op = "generate_main_typ"
    /\ genCall.failed = "section"
    /\ Len(genCall.written) = 1
    /\ sectionFiles[genCall.written[1]].exists
    /\ rootFile.exists

\* C28: when only the write of form_data.json fails, the generation emits
\* the success signal alone, and main.typ and the section files are the
\* ones this generation wrote.
C28_SnapshotFailureNotFatal ==
    (genCall.op = "generate_main_typ" /\ genCall.failed = "snapshot") =>
        /\ genCall.outcome = "generated"
        /\ genCall.signals = <<fileGenerated("main.typ")>>
        /\ genCall.root
        /\ rootFile = RootFile(BuildMainTypContent(formData, document))
        /\ Len(genCall.written) = Len(WrittenLeaders(document, 1))
        /\ WritesKept(document, sectionFiles, genCall.written)

\* The snapshot write of a generation with a section file has failed, and
\* no snapshot exists.
C28_Witness ==
    /\ genCall.op = "generate_main_typ"
    /\ genCall.failed = "snapshot"
    /\ genCall.outcome = "generated"
    /\ genCall.written # <<>>
    /\ rootFile.exists
    /\ ~snapshot.exists

\* The number of section contents in the files written by the last
\* generation.
RECURSIVE ContentsIn(_, _)
ContentsIn(files, ids) ==
    IF ids = {} THEN 0
    ELSE LET id == CHOOSE x \in ids : TRUE
         IN  Len(files[id].content.contents) + ContentsIn(files, ids \ {id})

\* C29, as stated: after a generation that succeeds every section of the
\* document is in exactly one file: the file named by the id of its leader
\* holds the sections of the leader's run, in document order, and the
\* files written hold as many sections as the document has.
C29_EverySectionInLeadersFile ==
    JustGenerated =>
        /\ \A i \in 1..Len(document) :
               LET j == Leader(document, i)
               IN  /\ j > 0
                   /\ document[j].id # ""
                   /\ sectionFiles[document[j].id]
                          = ExpectedFile(document, j)
        /\ ContentsIn(sectionFiles, Range(genCall.written)) = Len(document)

\* C29, amended: after a generation that succeeds, the file named by the id
\* of a leader holds the sections of the leader's run, in document order,
\* for every section whose leader has an id that no later top-level
\* section has; the files written hold these sections and no other.
C29_SectionsOfOwnedRunsInLeadersFile ==
    JustGenerated =>
        /\ \A i \in 1..Len(document) :
               HasRunFile(document, i) =>
                   LET j == Leader(document, i)
                   IN  sectionFiles[document[j].id]
                          = ExpectedFile(document, j)
        /\ ContentsIn(sectionFiles, Range(genCall.written))
               = Cardinality({i \in 1..Len(document) :
                                 HasRunFile(document, i)})

\* A generation has succeeded for a top-level section followed by a nested
\* one, and the file of the run holds the two in this order.
C29_Witness ==
    /\ JustGenerated
    /\ Len(document) = 2
    /\ document[1].level = 1
    /\ document[2].level = 2
    /\ HasRunFile(document, 2)
    /\ Len(sectionFiles[document[1].id].content.contents) = 2
    /\ sectionFiles[document[1].id].content.contents[2].level = 2

\* The numbers of the lines of a root file that are of a kind, or equal to
\* a line.
LinesOfKind(content, kind) ==
    {n \in 1..Len(content) : content[n].kind = kind}

LinesEqual(content, line) == {n \in 1..Len(content) : content[n] = line}

IsInclude(line) == line.kind = "include"

\* The files named by the include lines of a root file, in their order.
Included(content) ==
    LET lines == SelectSeq(content, IsInclude)
    IN  [k \in 1..Len(lines) |-> lines[k].text]

\* C30: after a generation that succeeds, the include lines of main.typ
\* name the section files that the generation wrote, one line for each
\* write and in the order of the writes, which is the document order of the
\* level-1 sections that lead the runs; the one bibliography declaration
\* comes after every include line.
C30_IncludesInDocumentOrder ==
    JustGenerated =>
        LET leaders == WrittenLeaders(document, 1)
            bibliography == LinesEqual(rootFile.content,
                                       Static("#bibliography("))
        IN  /\ Len(genCall.written) = Len(leaders)
            /\ Included(rootFile.content) =
                   [k \in 1..Len(leaders) |->
                       <<"sections/", document[leaders[k]].id, ".typ">>]
            /\ \A k \in 1..Len(leaders) :
                   genCall.written[k] = document[leaders[k]].id
            /\ Cardinality(bibliography) = 1
            /\ \A b \in bibliography :
                   \A n \in LinesOfKind(rootFile.content, "include") : n < b

\* A generation has succeeded for two level-1 sections with different ids,
\* and main.typ includes the file of the first before that of the second.
C30_Witness ==
    /\ JustGenerated
    /\ Len(document) = 2
    /\ TopLevelIdsDistinct(document)
    /\ Len(Included(rootFile.content)) = 2
    /\ Included(rootFile.content)[1] = <<"sections/", document[1].id, ".typ">>
    /\ Included(rootFile.content)[2] = <<"sections/", document[2].id, ".typ">>

(***************************************************************************)
(* Properties of the root file.                                            *)
(***************************************************************************)
\* The authors of a form as numbers, and those among them that have a name
\* and no reference to an affiliation.
AuthorNumbers == 1..Len(formData.authors)

\* The lines of the root file that give the name of an emitted author.
AuthorNameLines == LinesOfKind(rootFile.content, "author name")

\* C22: in the root file no entry of the authors list gives the name of an
\* author who has a name and an empty list of affiliation references.
C22_AuthorWithoutAffiliationOmitted ==
    rootFile.exists =>
        \A a \in AuthorNumbers :
            (/\ formData.authors[a].name # Empty
             /\ formData.authors[a].affiliationIds = <<>>)
            => \A n \in AuthorNameLines :
                   rootFile.content[n].text # formData.authors[a].name

\* A root file with an authors list exists for a form whose first author
\* has a name and no reference, and whose second author is emitted.
C22_Witness ==
    /\ rootFile.exists
    /\ Len(formData.authors) = 2
    /\ formData.authors[1].name # Empty
    /\ formData.authors[1].affiliationIds = <<>>
    /\ formData.authors[1].orcid # Empty
    /\ Cardinality(AuthorNameLines) = 1
    /\ \E n \in LinesOfKind(rootFile.content, "include-orcid name") :
           rootFile.content[n].text = formData.authors[1].name

\* The position of the affiliation that has an id, 0 when none has it.
PositionOf(id) ==
    LET found == {k \in 1..Len(formData.affiliations) :
                     formData.affiliations[k].id = id}
    IN  IF found = {} THEN 0 ELSE CHOOSE k \in found : TRUE

IsValidPosition(k) == k > 0

\* The positions of the affiliations that an author refers to, in the
\* order of the references, without the references that name no
\* affiliation.
ValidPositions(author) ==
    SelectSeq([r \in 1..Len(author.affiliationIds) |->
                  PositionOf(author.affiliationIds[r])],
              IsValidPosition)

HasDangling(author) ==
    \E r \in 1..Len(author.affiliationIds) :
        PositionOf(author.affiliationIds[r]) = 0

\* The text "AF-k", "AF-m", ... for positions k, m, ...
RECURSIVE TokensText(_)
TokensText(positions) ==
    IF positions = <<>> THEN <<>>
    ELSE <<"\"", "A", "F", "-", DigitChars[Head(positions) + 1], "\"">>
             \o (IF Len(positions) > 1 THEN <<",", " ">> ELSE <<>>)
             \o TokensText(Tail(positions))

\* The entries of the authors list of the root file that give a name: the
\* line of the name is followed by the line of the tokens, or by the end of
\* the entry when the entry has no tokens.
EntryWithTokens(name, text) ==
    \E n \in AuthorNameLines :
        /\ rootFile.content[n].text = name
        /\ rootFile.content[n + 1] = Line("author affiliations", text)

EntryWithoutTokens(name) ==
    \E n \in AuthorNameLines :
        /\ rootFile.content[n].text = name
        /\ rootFile.content[n + 1] = Static("    ),")

\* C23: in the root file every author who has a name and a reference to an
\* affiliation of the list has an entry in the authors list, and the
\* tokens of the entry are AF-k for the positions k, counted from 1, of the
\* affiliations referred to.
C23_ValidReferencesEmittedByPosition ==
    rootFile.exists =>
        \A a \in AuthorNumbers :
            LET author == formData.authors[a]
            IN  (author.name # Empty /\ ValidPositions(author) # <<>>)
                => EntryWithTokens(author.name,
                                   TokensText(ValidPositions(author)))

\* A root file exists for an author who refers to the second affiliation
\* and then to the first, and the entry shows AF-2 before AF-1.
C23_Witness ==
    /\ rootFile.exists
    /\ Len(formData.authors) = 1
    /\ formData.authors[1].name # Empty
    /\ ValidPositions(formData.authors[1]) = <<2, 1>>
    /\ EntryWithTokens(formData.authors[1].name, TokensText(<<2, 1>>))

\* C24: a reference to an id that no affiliation has stops no generation
\* (a generation fails only when a write does) and gives no token: the
\* entry of an author with such a reference shows the tokens of the other
\* references in their order, and no token line when there is no other.
C24_DanglingReferencesOmitted ==
    /\ genCall.outcome = "write_failed" =>
           genCall.failed \in {"mkdir", "section", "root"}
    /\ (rootFile.exists /\ formData.affiliations = <<>>) =>
           LinesOfKind(rootFile.content, "author affiliations") = {}
    /\ rootFile.exists =>
           \A a \in AuthorNumbers :
               LET author == formData.authors[a]
               IN  (/\ author.name # Empty
                    /\ HasDangling(author)
                    /\ formData.affiliations # <<>>)
                   => IF ValidPositions(author) = <<>>
                      THEN EntryWithoutTokens(author.name)
                      ELSE EntryWithTokens(author.name,
                               TokensText(ValidPositions(author)))

\* A generation has succeeded for an author who refers to an id that no
\* affiliation has and then to the first affiliation, and the entry shows
\* AF-1 alone.
C24_Witness ==
    /\ JustGenerated
    /\ rootFile.exists
    /\ Len(formData.authors) = 1
    /\ formData.authors[1].name # Empty
    /\ formData.authors[1].affiliationIds = <<"afX", "af1">>
    /\ PositionOf("af1") = 1
    /\ EntryWithTokens(formData.authors[1].name, TokensText(<<1>>))

\* A text in which every backslash begins the escape of one of the five
\* special characters and no special character stands without one, and the
\* text that it stands for.
RECURSIVE WellEscaped(_)
WellEscaped(text) ==
    IF text = <<>> THEN TRUE
    ELSE IF Head(text) = "\\"
    THEN /\ Len(text) >= 2
         /\ text[2] \in Specials
         /\ WellEscaped(SubSeq(text, 3, Len(text)))
    ELSE Head(text) \notin Specials /\ WellEscaped(Tail(text))

RECURSIVE Unescaped(_)
Unescaped(text) ==
    IF text = <<>> THEN <<>>
    ELSE IF Head(text) = "\\"
    THEN <<text[2]>> \o Unescaped(SubSeq(text, 3, Len(text)))
    ELSE <<Head(text)>> \o Unescaped(Tail(text))

IsSpecial(char) == char \in Specials

\* The title as the root file gives it.
EmittedTitle ==
    LET n == CHOOSE m \in LinesOfKind(rootFile.content, "doc-title") : TRUE
    IN  rootFile.content[n].text

\* C25: the escaped title has no backslash, bracket, hash or dollar sign
\* that is not part of an escape, it stands for the title, and it is
\* longer than the title by one backslash for each special character of
\* the title and no more.
C25_EscapedHasNoBareSpecial ==
    rootFile.exists =>
        /\ WellEscaped(EmittedTitle)
        /\ Unescaped(EmittedTitle) = formData.title
        /\ Len(EmittedTitle)
               = Len(formData.title)
                     + Len(SelectSeq(formData.title, IsSpecial))

\* A root file exists for a title of the five special characters, bracket
\* first and backslash second, and gives it with ten characters.
C25_Witness ==
    /\ rootFile.exists
    /\ Len(formData.title) = 5
    /\ formData.title[1] = "["
    /\ formData.title[2] = "\\"
    /\ Len(EmittedTitle) = 10

(***************************************************************************)
(* Frame of a generation.                                                  *)
(***************************************************************************)
\* Block after is block before, but for a label given to an image block
\* that had none.
SameButNewLabel(before, after) ==
    /\ after.type = before.type
    /\ after.content = before.content
    /\ after.path = before.path
    /\ after.caption = before.caption
    /\ after.note = before.note
    /\ after.label # before.label =>
           before.type = "image" /\ before.label = Empty

\* Document after is document before, but for the labels given to image
\* blocks that had none.
SameButNewLabels(before, after) ==
    /\ Len(after) = Len(before)
    /\ \A i \in 1..Len(before) :
           /\ after[i].id = before[i].id
           /\ after[i].title = before[i].title
           /\ after[i].level = before[i].level
           /\ after[i].content = before[i].content
           /\ Len(after[i].blocks) = Len(before[i].blocks)
           /\ \A b \in 1..Len(before[i].blocks) :
                  SameButNewLabel(before[i].blocks[b], after[i].blocks[b])

\* A step that ends with a generation as the last request: every step of
\* generate_main_typ (and a step of set_project_path that follows one).
EndsWithGeneration == genCall'.op = "generate_main_typ"

\* C31: a generation, whether it succeeds or fails, leaves the form and
\* every field of every section and block of the document as they were,
\* but for the label of the image blocks that had none.
C31_GenerationKeepsAuthoredContent ==
    [][EndsWithGeneration =>
          /\ formData' = formData
          /\ SameButNewLabels(document, document')]_vars

\* A generation has succeeded for a document of two sections, the first
\* with an image block that now has the first generated label, and the
\* title, path and caption of the first section are those the user gave.
C31_Witness ==
    /\ JustGenerated
    /\ Len(document) = 2
    /\ document[1].title = <<"T", "[", "1", "]">>
    /\ document[1].blocks[1].type = "image"
    /\ document[1].blocks[1].label = <<"img:">> \o Uuid(1)
    /\ document[1].blocks[1].path = <<"a", "\\", "b">>
    /\ document[1].blocks[1].caption = <<"C", "#">>
    /\ document[2].blocks[1].type = "text"

\* The root file has the fixed line text.
HasStatic(text) ==
    \E n \in 1..Len(rootFile.content) : rootFile.content[n] = Static(text)

\* C32: the root file has the opening of the authors list and the opening
\* of the affiliations list exactly when the form has an author and an
\* affiliation.
C32_AuthorsBlockIffBothLists ==
    rootFile.exists =>
        LET both == formData.authors # <<>> /\ formData.affiliations # <<>>
        IN  /\ HasStatic("  authors: (") <=> both
            /\ HasStatic("  affiliations: (") <=> both
            /\ HasStatic("  // Authors and affiliations") <=> both

\* Root files exist with the block, and without it for a form that has an
\* author with name and reference but no affiliation.
C32_Witness ==
    /\ rootFile.exists
    /\ formData.authors # <<>>
    /\ formData.authors[1].name # Empty
    /\ formData.authors[1].affiliationIds # <<>>
    /\ formData.affiliations = <<>>
    /\ ~HasStatic("  authors: (")

(***************************************************************************)
(* Escaping of the text that the user supplies.                            *)
(***************************************************************************)
\* The texts of the section files that come from the title, the caption
\* and the note fields, and those that come from the text of the blocks.
SectionFileTexts(field) ==
    UNION {UNION {IF field = "title" THEN {c.title}
                  ELSE {c.body[b][field] :
                           b \in {d \in 1..Len(c.body) :
                                      field = "text"
                                          <=> c.body[d].type = "text"}} :
                  c \in {sectionFiles[id].content.contents[k] :
                            k \in 1..Len(sectionFiles[id].content.contents)}} :
           id \in {f \in FileIds : sectionFiles[f].exists}}

\* The texts of the root file that come from a field of the form.
RootFileTexts(kinds) ==
    {rootFile.content[n].text :
        n \in {m \in 1..Len(rootFile.content) :
                  rootFile.content[m].kind \in kinds}}

\* The fields of the form that the generator writes between brackets, and
\* the keywords.
BracketedKinds ==
    {"doc-title", "author name", "affiliation name", "course", "instructor",
     "due-date", "running-head", "include-orcid name", "author notes",
     "abstract", "keywords"}

\* The titles, captions and notes of the section files, and the bracketed
\* fields and the keywords of the root file, are escaped.
BracketedTextEscaped ==
    /\ \A field \in {"title", "caption", "note"} :
           \A text \in SectionFileTexts(field) : WellEscaped(text)
    /\ \A text \in RootFileTexts(BracketedKinds) : WellEscaped(text)

\* C33: every text of a user that is in a section file or in the root
\* file is escaped: the titles, captions, notes and block texts of the
\* section files, and the bracketed fields and the ORCID iDs of the root
\* file.
C33_EveryFreeTextEscaped ==
    /\ BracketedTextEscaped
    /\ \A text \in SectionFileTexts("text") : WellEscaped(text)
    /\ \A text \in RootFileTexts({"include-orcid id"}) : WellEscaped(text)

(***************************************************************************)
(* The tracker when stat fails, and the query of the tracker.              *)
(***************************************************************************)
\* C34: every scan emits a list that holds each page file of the directory
\* once; a file on which stat fails carries the time of the scan and its
\* entry in file_timestamps stays as it was; every other file carries the
\* recorded token when its mtime is the recorded one, and else the time of
\* the scan, which is recorded with the mtime.
C34_StatFailureFallsBackToScanTime ==
    [][ScanStep =>
        LET urls == EmittedList(lastScan')
        IN  /\ lastScan' # <<>>
            /\ Len(urls) = Cardinality(PresentFiles)
            /\ Range(Paths(urls)) = PresentFiles
            /\ \A i \in 1..Len(urls) :
                   LET f == urls[i].path
                   IN  IF ~dirFiles[f].statOk
                       THEN /\ urls[i].t = now
                            /\ fileTimestamps'[f] = fileTimestamps[f]
                       ELSE IF Unchanged(f)
                       THEN /\ urls[i].t = fileTimestamps[f].token
                            /\ fileTimestamps'[f] = fileTimestamps[f]
                       ELSE /\ urls[i].t = now
                            /\ fileTimestamps'[f]
                                   = Stamp(dirFiles[f].mtime, now)]_vars

\* A scan has emitted two files: one that was recorded before and on which
\* stat fails, with the time of the scan, and one that is unchanged, with
\* its older token.
C34_Witness ==
    /\ Len(EmittedList(lastScan)) = 2
    /\ \E f, g \in PresentFiles :
           /\ ~dirFiles[f].statOk
           /\ fileTimestamps[f].seen
           /\ fileTimestamps[f].token < now
           /\ TokenIn(EmittedList(lastScan), f) = now
           /\ Unchanged(g)
           /\ TokenIn(EmittedList(lastScan), g) = fileTimestamps[g].token
           /\ fileTimestamps[g].token < now

(***************************************************************************)
(* The error stream of the watch subprocess.                               *)
(***************************************************************************)
\* A chunk of the error stream is a status line of typst watch.
IsStatusLine(chunk) ==
    \/ StartsWith(Strip(chunk), <<"w", "a", "t", "c", "h", "i", "n", "g", " ">>)
    \/ StartsWith(Strip(chunk),
                  <<"w", "r", "i", "t", "i", "n", "g", " ", "t", "o", " ">>)

SignalNames(signals) == {signals[k].sig : k \in 1..Len(signals)}

\* _handle_stderr has run last, on chunk lastCall.info.stderr.
StderrHandled == lastCall.op = "handle_stderr"

\* Every chunk of the error stream that is not blank is emitted once with
\* processError as it was read, status line or not, and a blank chunk is
\* not emitted.
StderrForwardedAsError ==
    StderrHandled =>
        lastCall.signals =
            IF Strip(lastCall.info.stderr) # <<>>
            THEN <<processError(lastCall.info.stderr)>> ELSE <<>>

\* C35: a status line on the error stream gives no error event and is
\* forwarded as an output event; every other chunk of the error stream
\* that is not blank is forwarded as an error event.
C35_StatusLinesAreNotErrors ==
    StderrHandled =>
        IF IsStatusLine(lastCall.info.stderr)
        THEN /\ "processError" \notin SignalNames(lastCall.signals)
             /\ lastCall.signals
                    = <<Sig("processOutput", TRUE, "", lastCall.info.stderr)>>
        ELSE Strip(lastCall.info.stderr) # <<>> =>
                 lastCall.signals = <<processError(lastCall.info.stderr)>>

(***************************************************************************)
(* The tokens of the root file.                                            *)
(***************************************************************************)
\* The text AF-k, and whether a text holds it.
TokenText(k) == <<"A", "F", "-", DigitChars[k + 1]>>

Holds(text, part) ==
    \E at \in 1..(Len(text) - Len(part) + 1) :
        SubSeq(text, at, at + Len(part) - 1) = part

\* The positions whose token is listed under an author of the root file,
\* and those whose token is the id of an entry of its affiliations list.
ListedTokens ==
    {k \in 1..9 :
        \E n \in LinesOfKind(rootFile.content, "author affiliations") :
            Holds(rootFile.content[n].text, TokenText(k))}

DeclaredTokens ==
    {k \in 1..9 :
        \E n \in LinesOfKind(rootFile.content, "affiliation id") :
            rootFile.content[n].text = TokenText(k)}

\* The tokens listed under the authors are those of affiliations of the
\* form, and the tokens declared are those of the affiliations that have a
\* name.
TokensOfListAndOfNamed ==
    rootFile.exists =>
        /\ ListedTokens \subseteq 1..Len(formData.affiliations)
        /\ formData.authors # <<>> =>
               DeclaredTokens = {k \in 1..Len(formData.affiliations) :
                                    formData.affiliations[k].name # Empty}

\* C36: in the root file every token listed under an author is the id of
\* an entry of the affiliations list.
C36_ListedTokensAreDeclared ==
    rootFile.exists => ListedTokens \subseteq DeclaredTokens

(***************************************************************************)
(* The result of a generation.                                             *)
(***************************************************************************)
\* C37: every call of generate_main_typ emits one signal: the failure
\* signal with the message of the missing project path when no project
\* path is set, the failure signal with a message when the mkdir or the
\* write of a section file or of main.typ fails, and else, also when the
\* write of form_data.json fails, the success signal with the path of
\* main.typ.
C37_OneResultSignal ==
    genCall.op = "generate_main_typ" =>
        /\ Len(genCall.signals) = 1
        /\ genCall.signals[1].text # ""
        /\ ~genProjectSet => genCall.outcome = "not_configured"
        /\ IF genCall.outcome = "not_configured"
           THEN genCall.signals
                    = <<fileGenerationFailed(
                          "Project path not set. Cannot generate main.typ.")>>
           ELSE IF genCall.failed \in {"mkdir", "section", "root"}
           THEN genCall.signals[1].name = "fileGenerationFailed"
           ELSE genCall.signals = <<fileGenerated("main.typ")>>

\* The write of main.typ has failed after the write of a section file, and
\* the failure signal was emitted alone.
C37_Witness ==
    /\ genCall.op = "generate_main_typ"
    /\ genCall.failed = "root"
    /\ genCall.written # <<>>
    /\ OneFailureSignal(genCall.signals)
    /\ sectionFiles[genCall.written[1]].exists

\* The last top-level section of a document that has an id.
LastWithId(sections, id) ==
    LET with == {i \in TopLevel(sections) : sections[i].id = id}
    IN  CHOOSE j \in with : \A m \in with : m <= j

\* C38: after a generation that succeeds, whatever generations came
\* before, every file that an include line of main.typ names is a section
\* file that exists, that this generation wrote, and that holds what this
\* generation wrote last under its name.
C38_IncludedFilesWritten ==
    JustGenerated =>
        \A n \in LinesOfKind(rootFile.content, "include") :
            LET id == rootFile.content[n].text[2]
            IN  /\ rootFile.content[n].text = <<"sections/", id, ".typ">>
                /\ id \in FileIds
                /\ sectionFiles[id].exists
                /\ id \in Range(genCall.written)
                /\ sectionFiles[id]
                       = ExpectedFile(document, LastWithId(document, id))

\* A generation has succeeded after one that failed, for a document of
\* two sections with ids s1 and s2, and main.typ includes the two files.
C38_Witness ==
    /\ JustGenerated
    /\ ~genCall.again
    /\ sectionsDir
    /\ Len(document) = 2
    /\ document[1].id = "s1"
    /\ document[2].id = "s2"
    /\ Cardinality(LinesOfKind(rootFile.content, "include")) = 2
    /\ genCall.written = <<"s1", "s2">>

(***************************************************************************)
(* The query of the tracker.                                               *)
(***************************************************************************)
\* get_output_files leaves file_timestamps as it was when every page file
\* of the directory has the recorded mtime or cannot be read, and it never
\* emits a signal or changes the watcher.
QueryKeepsRecordedFiles ==
    [][GetOutputFiles =>
          /\ lastScan' = lastScan
          /\ watchedFiles' = watchedFiles
          /\ (\A f \in PresentFiles : Unchanged(f) \/ ~dirFiles[f].statOk)
                 => fileTimestamps' = fileTimestamps]_vars

\* C39: get_output_files leaves file_timestamps as it was, whatever the
\* directory holds, so that the scan that follows reports the tokens and
\* the page index that it would have reported without the query.
C39_QueryLeavesTimestamps ==
    [][GetOutputFiles => fileTimestamps' = fileTimestamps]_vars


====
